---- MODULE Spec2Model ----
(***************************************************************************)
(* Reading-plan scheduler of backend/bible_reader.py (class BibleReader):  *)
(* the canon table, the chapter sequence, the reference compressor, the    *)
(* plan partitioners and the date-to-day-index mapping.                    *)
(*                                                                         *)
(* Python values are modelled as follows.  A (book, chapter) tuple is the  *)
(* pair <<book, chapter>>.  A list slice seq[a:b] is Slice(seq, a, b) with *)
(* Python's 0-based, end-exclusive, clamped indices.  A str produced by an *)
(* f-string is a sequence of one-character strings, so that formatting and *)
(* parsing are real conversions.  int(x * (n / T)) on floats is computed   *)
(* by IntFloatMul with the rounding of IEEE-754 doubles.                   *)
(***************************************************************************)
EXTENDS Integers, Sequences, FiniteSets, TLC

VARIABLES
  chapter_sequence,  \* BibleReader._chapter_sequence
  reading_plan,      \* BibleReader.reading_plan: start_date, total_days
  plan_type,         \* plan_type argument of the current call
  reading_date,      \* reading_date argument of the current call
  day_index,         \* day index handed to the partitioner
  reading,           \* the returned dict: passages, theme
  streams,           \* locals of the partitioner: per stream start/end/slice
  assigned,          \* per stream, the slices of the days read so far
  chapter_refs,      \* argument of _compress_chapter_refs
  compressed,        \* its return value
  pc,                \* position of the caller
  returned,          \* what the first call with each (date, plan type) returned
  bible_reader,      \* main._bible_reader: 0 for None, else the instance
  constructed,       \* how many BibleReader instances have been constructed
  requests,          \* per request thread: its position in get_bible_reader,
                     \* the instance it made and the instance it got
  enhanced_start_date, \* start_date argument of create_enhanced_reading_plan
  passages_per_day,  \* its passages_per_day argument
  enhanced_plan,     \* its local `plan`
  current_date,      \* its local current_date
  passage_index,     \* its local passage_index
  commentaries,      \* generate_all_commentaries: its local `commentaries`
  commentaries_file, \* the contents of <helper>_commentaries.json
  day_commentaries,  \* its local day_commentaries
  next_passage,      \* how many passages of the day the inner loop has taken
  rerun              \* whether this run is the one that resumes

call_vars == <<returned>>

singleton_vars == <<bible_reader, constructed, requests>>

enhanced_vars == <<enhanced_start_date, passages_per_day, enhanced_plan, current_date,
                   passage_index>>

generation_vars == <<commentaries, commentaries_file, day_commentaries, next_passage, rerun>>

\* the variables that only the later specifications move
other_vars == <<call_vars, singleton_vars, enhanced_vars, generation_vars>>

reader_vars == <<chapter_sequence, reading_plan, plan_type, reading_date, day_index,
                 reading, streams, assigned, chapter_refs, compressed, pc>>

vars == <<reader_vars, other_vars>>

(***************************************************************************)
(* Canon table and per-plan book tables                                    *)
(***************************************************************************)
chronological_books_simplified ==
  <<
    <<"Genesis", 50>>, <<"Job", 42>>, <<"Exodus", 40>>, <<"Leviticus", 27>>,
    <<"Numbers", 36>>, <<"Deuteronomy", 34>>, <<"Joshua", 24>>,
    <<"Judges", 21>>, <<"Ruth", 4>>, <<"1 Samuel", 31>>, <<"2 Samuel", 24>>,
    <<"1 Kings", 22>>, <<"2 Kings", 25>>, <<"1 Chronicles", 29>>,
    <<"2 Chronicles", 36>>, <<"Ezra", 10>>, <<"Nehemiah", 13>>,
    <<"Esther", 10>>, <<"Psalms", 150>>, <<"Proverbs", 31>>,
    <<"Ecclesiastes", 12>>, <<"Song of Solomon", 8>>, <<"Isaiah", 66>>,
    <<"Jeremiah", 52>>, <<"Lamentations", 5>>, <<"Ezekiel", 48>>,
    <<"Daniel", 12>>, <<"Hosea", 14>>, <<"Joel", 3>>, <<"Amos", 9>>,
    <<"Obadiah", 1>>, <<"Jonah", 4>>, <<"Micah", 7>>, <<"Nahum", 3>>,
    <<"Habakkuk", 3>>, <<"Zephaniah", 3>>, <<"Haggai", 2>>,
    <<"Zechariah", 14>>, <<"Malachi", 4>>, <<"Matthew", 28>>, <<"Mark", 16>>,
    <<"Luke", 24>>, <<"John", 21>>, <<"Acts", 28>>, <<"James", 5>>,
    <<"Galatians", 6>>, <<"1 Thessalonians", 5>>, <<"2 Thessalonians", 3>>,
    <<"1 Corinthians", 16>>, <<"2 Corinthians", 13>>, <<"Romans", 16>>,
    <<"Ephesians", 6>>, <<"Philippians", 4>>, <<"Colossians", 4>>,
    <<"Philemon", 1>>, <<"1 Timothy", 6>>, <<"Titus", 3>>,
    <<"2 Timothy", 4>>, <<"1 Peter", 5>>, <<"2 Peter", 3>>, <<"Jude", 1>>,
    <<"Hebrews", 13>>, <<"Revelation", 22>>, <<"1 John", 5>>,
    <<"2 John", 1>>, <<"3 John", 1>>
  >>

classic_ot_books ==
  <<
    <<"Genesis", 50>>, <<"Exodus", 40>>, <<"Leviticus", 27>>,
    <<"Numbers", 36>>, <<"Deuteronomy", 34>>, <<"Joshua", 24>>,
    <<"Judges", 21>>, <<"Ruth", 4>>, <<"1 Samuel", 31>>, <<"2 Samuel", 24>>,
    <<"1 Kings", 22>>, <<"2 Kings", 25>>, <<"1 Chronicles", 29>>,
    <<"2 Chronicles", 36>>, <<"Ezra", 10>>, <<"Nehemiah", 13>>,
    <<"Esther", 10>>, <<"Job", 42>>, <<"Ecclesiastes", 12>>,
    <<"Song of Solomon", 8>>, <<"Isaiah", 66>>, <<"Jeremiah", 52>>,
    <<"Lamentations", 5>>, <<"Ezekiel", 48>>, <<"Daniel", 12>>,
    <<"Hosea", 14>>, <<"Joel", 3>>, <<"Amos", 9>>, <<"Obadiah", 1>>,
    <<"Jonah", 4>>, <<"Micah", 7>>, <<"Nahum", 3>>, <<"Habakkuk", 3>>,
    <<"Zephaniah", 3>>, <<"Haggai", 2>>, <<"Zechariah", 14>>,
    <<"Malachi", 4>>
  >>

classic_nt_books ==
  <<
    <<"Matthew", 28>>, <<"Mark", 16>>, <<"Luke", 24>>, <<"John", 21>>,
    <<"Acts", 28>>, <<"Romans", 16>>, <<"1 Corinthians", 16>>,
    <<"2 Corinthians", 13>>, <<"Galatians", 6>>, <<"Ephesians", 6>>,
    <<"Philippians", 4>>, <<"Colossians", 4>>, <<"1 Thessalonians", 5>>,
    <<"2 Thessalonians", 3>>, <<"1 Timothy", 6>>, <<"2 Timothy", 4>>,
    <<"Titus", 3>>, <<"Philemon", 1>>, <<"Hebrews", 13>>, <<"James", 5>>,
    <<"1 Peter", 5>>, <<"2 Peter", 3>>, <<"1 John", 5>>, <<"2 John", 1>>,
    <<"3 John", 1>>, <<"Jude", 1>>, <<"Revelation", 22>>
  >>

split_ot_books ==
  <<
    <<"Genesis", 50>>, <<"Exodus", 40>>, <<"Leviticus", 27>>,
    <<"Numbers", 36>>, <<"Deuteronomy", 34>>, <<"Joshua", 24>>,
    <<"Judges", 21>>, <<"Ruth", 4>>, <<"1 Samuel", 31>>, <<"2 Samuel", 24>>,
    <<"1 Kings", 22>>, <<"2 Kings", 25>>, <<"1 Chronicles", 29>>,
    <<"2 Chronicles", 36>>, <<"Ezra", 10>>, <<"Nehemiah", 13>>,
    <<"Esther", 10>>, <<"Job", 42>>, <<"Psalms", 150>>, <<"Proverbs", 31>>,
    <<"Ecclesiastes", 12>>, <<"Song of Solomon", 8>>, <<"Isaiah", 66>>,
    <<"Jeremiah", 52>>, <<"Lamentations", 5>>, <<"Ezekiel", 48>>,
    <<"Daniel", 12>>, <<"Hosea", 14>>, <<"Joel", 3>>, <<"Amos", 9>>,
    <<"Obadiah", 1>>, <<"Jonah", 4>>, <<"Micah", 7>>, <<"Nahum", 3>>,
    <<"Habakkuk", 3>>, <<"Zephaniah", 3>>, <<"Haggai", 2>>,
    <<"Zechariah", 14>>, <<"Malachi", 4>>
  >>

split_nt_books ==
  <<
    <<"Matthew", 28>>, <<"Mark", 16>>, <<"Luke", 24>>, <<"John", 21>>,
    <<"Acts", 28>>, <<"Romans", 16>>, <<"1 Corinthians", 16>>,
    <<"2 Corinthians", 13>>, <<"Galatians", 6>>, <<"Ephesians", 6>>,
    <<"Philippians", 4>>, <<"Colossians", 4>>, <<"1 Thessalonians", 5>>,
    <<"2 Thessalonians", 3>>, <<"1 Timothy", 6>>, <<"2 Timothy", 4>>,
    <<"Titus", 3>>, <<"Philemon", 1>>, <<"Hebrews", 13>>, <<"James", 5>>,
    <<"1 Peter", 5>>, <<"2 Peter", 3>>, <<"1 John", 5>>, <<"2 John", 1>>,
    <<"3 John", 1>>, <<"Jude", 1>>, <<"Revelation", 22>>
  >>

fivexfive_nt_books ==
  <<
    <<"Matthew", 28>>, <<"Mark", 16>>, <<"Luke", 24>>, <<"John", 21>>,
    <<"Acts", 28>>, <<"Romans", 16>>, <<"1 Corinthians", 16>>,
    <<"2 Corinthians", 13>>, <<"Galatians", 6>>, <<"Ephesians", 6>>,
    <<"Philippians", 4>>, <<"Colossians", 4>>, <<"1 Thessalonians", 5>>,
    <<"2 Thessalonians", 3>>, <<"1 Timothy", 6>>, <<"2 Timothy", 4>>,
    <<"Titus", 3>>, <<"Philemon", 1>>, <<"Hebrews", 13>>, <<"James", 5>>,
    <<"1 Peter", 5>>, <<"2 Peter", 3>>, <<"1 John", 5>>, <<"2 John", 1>>,
    <<"3 John", 1>>, <<"Jude", 1>>, <<"Revelation", 22>>
  >>

mcheyne_ot_history_without_ruth ==
  <<
    <<"Genesis", 50>>, <<"Exodus", 40>>, <<"Leviticus", 27>>,
    <<"Numbers", 36>>, <<"Deuteronomy", 34>>, <<"Joshua", 24>>,
    <<"Judges", 21>>, <<"1 Samuel", 31>>, <<"2 Samuel", 24>>,
    <<"1 Kings", 22>>, <<"2 Kings", 25>>, <<"1 Chronicles", 29>>,
    <<"2 Chronicles", 36>>, <<"Ezra", 10>>, <<"Nehemiah", 13>>,
    <<"Esther", 10>>
  >>

mcheyne_ot_history ==
  <<
    <<"Genesis", 50>>, <<"Exodus", 40>>, <<"Leviticus", 27>>,
    <<"Numbers", 36>>, <<"Deuteronomy", 34>>, <<"Joshua", 24>>,
    <<"Judges", 21>>, <<"Ruth", 4>>, <<"1 Samuel", 31>>, <<"2 Samuel", 24>>,
    <<"1 Kings", 22>>, <<"2 Kings", 25>>, <<"1 Chronicles", 29>>,
    <<"2 Chronicles", 36>>, <<"Ezra", 10>>, <<"Nehemiah", 13>>,
    <<"Esther", 10>>
  >>

mcheyne_ot_prophets_poetry ==
  <<
    <<"Job", 42>>, <<"Psalms", 150>>, <<"Proverbs", 31>>,
    <<"Ecclesiastes", 12>>, <<"Song of Solomon", 8>>, <<"Isaiah", 66>>,
    <<"Jeremiah", 52>>, <<"Lamentations", 5>>, <<"Ezekiel", 48>>,
    <<"Daniel", 12>>, <<"Hosea", 14>>, <<"Joel", 3>>, <<"Amos", 9>>,
    <<"Obadiah", 1>>, <<"Jonah", 4>>, <<"Micah", 7>>, <<"Nahum", 3>>,
    <<"Habakkuk", 3>>, <<"Zephaniah", 3>>, <<"Haggai", 2>>,
    <<"Zechariah", 14>>, <<"Malachi", 4>>
  >>

mcheyne_nt_books ==
  <<
    <<"Matthew", 28>>, <<"Mark", 16>>, <<"Luke", 24>>, <<"John", 21>>,
    <<"Acts", 28>>, <<"Romans", 16>>, <<"1 Corinthians", 16>>,
    <<"2 Corinthians", 13>>, <<"Galatians", 6>>, <<"Ephesians", 6>>,
    <<"Philippians", 4>>, <<"Colossians", 4>>, <<"1 Thessalonians", 5>>,
    <<"2 Thessalonians", 3>>, <<"1 Timothy", 6>>, <<"2 Timothy", 4>>,
    <<"Titus", 3>>, <<"Philemon", 1>>, <<"Hebrews", 13>>, <<"James", 5>>,
    <<"1 Peter", 5>>, <<"2 Peter", 3>>, <<"1 John", 5>>, <<"2 John", 1>>,
    <<"3 John", 1>>, <<"Jude", 1>>, <<"Revelation", 22>>
  >>

genre_Law ==
  <<
    <<"Genesis", 50>>, <<"Exodus", 40>>, <<"Leviticus", 27>>,
    <<"Numbers", 36>>, <<"Deuteronomy", 34>>
  >>

genre_History ==
  <<
    <<"Joshua", 24>>, <<"Judges", 21>>, <<"Ruth", 4>>, <<"1 Samuel", 31>>,
    <<"2 Samuel", 24>>, <<"1 Kings", 22>>, <<"2 Kings", 25>>,
    <<"1 Chronicles", 29>>, <<"2 Chronicles", 36>>, <<"Ezra", 10>>,
    <<"Nehemiah", 13>>, <<"Esther", 10>>
  >>

genre_Poetry ==
  <<
    <<"Job", 42>>, <<"Psalms", 150>>, <<"Proverbs", 31>>,
    <<"Ecclesiastes", 12>>, <<"Song of Solomon", 8>>
  >>

genre_Prophets ==
  <<
    <<"Isaiah", 66>>, <<"Jeremiah", 52>>, <<"Lamentations", 5>>,
    <<"Ezekiel", 48>>, <<"Daniel", 12>>, <<"Hosea", 14>>, <<"Joel", 3>>,
    <<"Amos", 9>>, <<"Obadiah", 1>>, <<"Jonah", 4>>, <<"Micah", 7>>,
    <<"Nahum", 3>>, <<"Habakkuk", 3>>, <<"Zephaniah", 3>>, <<"Haggai", 2>>,
    <<"Zechariah", 14>>, <<"Malachi", 4>>
  >>

genre_Gospels ==
  <<
    <<"Matthew", 28>>, <<"Mark", 16>>, <<"Luke", 24>>, <<"John", 21>>
  >>

genre_Epistles ==
  <<
    <<"Acts", 28>>, <<"Romans", 16>>, <<"1 Corinthians", 16>>,
    <<"2 Corinthians", 13>>, <<"Galatians", 6>>, <<"Ephesians", 6>>,
    <<"Philippians", 4>>, <<"Colossians", 4>>, <<"1 Thessalonians", 5>>,
    <<"2 Thessalonians", 3>>, <<"1 Timothy", 6>>, <<"2 Timothy", 4>>,
    <<"Titus", 3>>, <<"Philemon", 1>>, <<"Hebrews", 13>>, <<"James", 5>>,
    <<"1 Peter", 5>>, <<"2 Peter", 3>>, <<"1 John", 5>>, <<"2 John", 1>>,
    <<"3 John", 1>>, <<"Jude", 1>>, <<"Revelation", 22>>
  >>

BookChars ==
  "Genesis" :> <<"G", "e", "n", "e", "s", "i", "s">>
  @@ "Job" :> <<"J", "o", "b">>
  @@ "Exodus" :> <<"E", "x", "o", "d", "u", "s">>
  @@ "Leviticus" :> <<"L", "e", "v", "i", "t", "i", "c", "u", "s">>
  @@ "Numbers" :> <<"N", "u", "m", "b", "e", "r", "s">>
  @@ "Deuteronomy" :> <<"D", "e", "u", "t", "e", "r", "o", "n", "o", "m", "y">>
  @@ "Joshua" :> <<"J", "o", "s", "h", "u", "a">>
  @@ "Judges" :> <<"J", "u", "d", "g", "e", "s">>
  @@ "Ruth" :> <<"R", "u", "t", "h">>
  @@ "1 Samuel" :> <<"1", " ", "S", "a", "m", "u", "e", "l">>
  @@ "2 Samuel" :> <<"2", " ", "S", "a", "m", "u", "e", "l">>
  @@ "1 Kings" :> <<"1", " ", "K", "i", "n", "g", "s">>
  @@ "2 Kings" :> <<"2", " ", "K", "i", "n", "g", "s">>
  @@ "1 Chronicles" :> <<"1", " ", "C", "h", "r", "o", "n", "i", "c", "l", "e", "s">>
  @@ "2 Chronicles" :> <<"2", " ", "C", "h", "r", "o", "n", "i", "c", "l", "e", "s">>
  @@ "Ezra" :> <<"E", "z", "r", "a">>
  @@ "Nehemiah" :> <<"N", "e", "h", "e", "m", "i", "a", "h">>
  @@ "Esther" :> <<"E", "s", "t", "h", "e", "r">>
  @@ "Psalms" :> <<"P", "s", "a", "l", "m", "s">>
  @@ "Proverbs" :> <<"P", "r", "o", "v", "e", "r", "b", "s">>
  @@ "Ecclesiastes" :> <<"E", "c", "c", "l", "e", "s", "i", "a", "s", "t", "e", "s">>
  @@ "Song of Solomon" :> <<"S", "o", "n", "g", " ", "o", "f", " ", "S", "o", "l", "o", "m", "o", "n">>
  @@ "Isaiah" :> <<"I", "s", "a", "i", "a", "h">>
  @@ "Jeremiah" :> <<"J", "e", "r", "e", "m", "i", "a", "h">>
  @@ "Lamentations" :> <<"L", "a", "m", "e", "n", "t", "a", "t", "i", "o", "n", "s">>
  @@ "Ezekiel" :> <<"E", "z", "e", "k", "i", "e", "l">>
  @@ "Daniel" :> <<"D", "a", "n", "i", "e", "l">>
  @@ "Hosea" :> <<"H", "o", "s", "e", "a">>
  @@ "Joel" :> <<"J", "o", "e", "l">>
  @@ "Amos" :> <<"A", "m", "o", "s">>
  @@ "Obadiah" :> <<"O", "b", "a", "d", "i", "a", "h">>
  @@ "Jonah" :> <<"J", "o", "n", "a", "h">>
  @@ "Micah" :> <<"M", "i", "c", "a", "h">>
  @@ "Nahum" :> <<"N", "a", "h", "u", "m">>
  @@ "Habakkuk" :> <<"H", "a", "b", "a", "k", "k", "u", "k">>
  @@ "Zephaniah" :> <<"Z", "e", "p", "h", "a", "n", "i", "a", "h">>
  @@ "Haggai" :> <<"H", "a", "g", "g", "a", "i">>
  @@ "Zechariah" :> <<"Z", "e", "c", "h", "a", "r", "i", "a", "h">>
  @@ "Malachi" :> <<"M", "a", "l", "a", "c", "h", "i">>
  @@ "Matthew" :> <<"M", "a", "t", "t", "h", "e", "w">>
  @@ "Mark" :> <<"M", "a", "r", "k">>
  @@ "Luke" :> <<"L", "u", "k", "e">>
  @@ "John" :> <<"J", "o", "h", "n">>
  @@ "Acts" :> <<"A", "c", "t", "s">>
  @@ "James" :> <<"J", "a", "m", "e", "s">>
  @@ "Galatians" :> <<"G", "a", "l", "a", "t", "i", "a", "n", "s">>
  @@ "1 Thessalonians" :> <<"1", " ", "T", "h", "e", "s", "s", "a", "l", "o", "n", "i", "a", "n", "s">>
  @@ "2 Thessalonians" :> <<"2", " ", "T", "h", "e", "s", "s", "a", "l", "o", "n", "i", "a", "n", "s">>
  @@ "1 Corinthians" :> <<"1", " ", "C", "o", "r", "i", "n", "t", "h", "i", "a", "n", "s">>
  @@ "2 Corinthians" :> <<"2", " ", "C", "o", "r", "i", "n", "t", "h", "i", "a", "n", "s">>
  @@ "Romans" :> <<"R", "o", "m", "a", "n", "s">>
  @@ "Ephesians" :> <<"E", "p", "h", "e", "s", "i", "a", "n", "s">>
  @@ "Philippians" :> <<"P", "h", "i", "l", "i", "p", "p", "i", "a", "n", "s">>
  @@ "Colossians" :> <<"C", "o", "l", "o", "s", "s", "i", "a", "n", "s">>
  @@ "Philemon" :> <<"P", "h", "i", "l", "e", "m", "o", "n">>
  @@ "1 Timothy" :> <<"1", " ", "T", "i", "m", "o", "t", "h", "y">>
  @@ "Titus" :> <<"T", "i", "t", "u", "s">>
  @@ "2 Timothy" :> <<"2", " ", "T", "i", "m", "o", "t", "h", "y">>
  @@ "1 Peter" :> <<"1", " ", "P", "e", "t", "e", "r">>
  @@ "2 Peter" :> <<"2", " ", "P", "e", "t", "e", "r">>
  @@ "Jude" :> <<"J", "u", "d", "e">>
  @@ "Hebrews" :> <<"H", "e", "b", "r", "e", "w", "s">>
  @@ "Revelation" :> <<"R", "e", "v", "e", "l", "a", "t", "i", "o", "n">>
  @@ "1 John" :> <<"1", " ", "J", "o", "h", "n">>
  @@ "2 John" :> <<"2", " ", "J", "o", "h", "n">>
  @@ "3 John" :> <<"3", " ", "J", "o", "h", "n">>

(***************************************************************************)
(* Python primitives                                                       *)
(***************************************************************************)
Min(a, b) == IF a <= b THEN a ELSE b

Max(a, b) == IF a >= b THEN a ELSE b

\* seq[a:b] for 0 <= a, 0 <= b: indices clamped to the length, empty when a >= b
Slice(seq, a, b) ==
  LET hi == Min(b, Len(seq))
  IN  IF a >= hi THEN <<>> ELSE SubSeq(seq, a + 1, hi)

RECURSIVE Pow2(_)
Pow2(k) == IF k <= 0 THEN 1 ELSE 2 * Pow2(k - 1)

\* (a * 2^s) mod m, by repeated doubling
RECURSIVE ShiftMod(_, _, _)
ShiftMod(a, s, m) == IF s <= 0 THEN a % m ELSE ShiftMod((2 * a) % m, s - 1, m)

\* floor(log2(a / b)) for a, b >= 1: the binary exponent of the quotient
RECURSIVE FloorLog2Up(_, _, _)
FloorLog2Up(a, b, e) == IF b * Pow2(e + 1) <= a THEN FloorLog2Up(a, b, e + 1) ELSE e

RECURSIVE FloorLog2Down(_, _, _)
FloorLog2Down(a, b, k) == IF a * Pow2(k) < b THEN FloorLog2Down(a, b, k + 1) ELSE 0 - k

FloorLog2(a, b) == IF a >= b THEN FloorLog2Up(a, b, 0) ELSE FloorLog2Down(a, b, 0)

(***************************************************************************)
(* int(d * (n / float(T))) as CPython computes it on IEEE-754 doubles.     *)
(* per = n / T is rounded to 53 bits, d * per is rounded again, int()      *)
(* truncates.  When T does not divide d * n the exact product is at least  *)
(* 1/T away from an integer and the rounding (below 2^-30) cannot move it  *)
(* across one, so the result is the exact floor.  When T divides d * n the *)
(* exact quotient is q = d*n/T and the result is q unless n / T was        *)
(* rounded down by r / (T * 2^s) (r the remainder of n * 2^s by T, s = 52  *)
(* minus the exponent of n / T) and d times that error exceeds half the    *)
(* spacing of the doubles just below q: then the product rounds below q    *)
(* and int() gives q - 1.                                                  *)
(***************************************************************************)
IntFloatMul(d, n, T) ==
  IF d = 0 \/ n = 0 THEN 0
  ELSE IF (d * n) % T # 0 THEN (d * n) \div T
  ELSE
    LET q     == (d * n) \div T
        e     == FloorLog2(n, T)
        s     == 52 - e
        r     == ShiftMod(n % T, s, T)
        odd   == ShiftMod(n % (2 * T), s, 2 * T) \div T = 1
        eq    == FloorLog2(q, 1)
        scale == IF q = Pow2(eq) THEN 4 ELSE 2
    IN  IF r = 0 THEN q
        ELSE IF 2 * r > T THEN q
        ELSE IF 2 * r = T /\ odd THEN q
        ELSE IF scale * d * r <= T * Pow2(eq - e) THEN q
        ELSE q - 1

\* str(k) for k >= 0
Digits == <<"0", "1", "2", "3", "4", "5", "6", "7", "8", "9">>

RECURSIVE IntToStr(_)
IntToStr(k) ==
  IF k < 10 THEN <<Digits[k + 1]>>
  ELSE Append(IntToStr(k \div 10), Digits[(k % 10) + 1])

(***************************************************************************)
(* Chapter Sequence Builder                                                *)
(***************************************************************************)
\* for book, count in books: seq.extend([(book, ch) for ch in range(1, count + 1)])
RECURSIVE ExpandBooks(_, _)
ExpandBooks(books, i) ==
  IF i > Len(books) THEN <<>>
  ELSE [ch \in 1..books[i][2] |-> <<books[i][1], ch>>] \o ExpandBooks(books, i + 1)

build_chapter_sequence == ExpandBooks(chronological_books_simplified, 1)

(***************************************************************************)
(* Reference Compressor                                                    *)
(***************************************************************************)
\* flush(): f"{book} {start_ch}" or f"{book} {start_ch}-{end_ch}"
flush(book, start_ch, end_ch) ==
  IF start_ch = end_ch
    THEN BookChars[book] \o <<" ">> \o IntToStr(start_ch)
    ELSE BookChars[book] \o <<" ">> \o IntToStr(start_ch) \o <<"-">> \o IntToStr(end_ch)

\* variant: a run is extended on consecutive chapter numbers alone
RECURSIVE compress_loop_any_book(_, _, _, _, _, _)
compress_loop_any_book(refs, i, current_book, current_start, prev_ch, passages) ==
  IF i > Len(refs)
    THEN Append(passages, flush(current_book, current_start, prev_ch))
  ELSE
    LET book == refs[i][1]
        ch   == refs[i][2]
    IN  IF ch = prev_ch + 1
          THEN compress_loop_any_book(refs, i + 1, current_book, current_start, ch,
                 passages)
          ELSE compress_loop_any_book(refs, i + 1, book, ch, ch,
                 Append(passages, flush(current_book, current_start, prev_ch)))

\* variant: the flush after the loop is missing
RECURSIVE compress_loop_no_final_flush(_, _, _, _, _, _)
compress_loop_no_final_flush(refs, i, current_book, current_start, prev_ch, passages) ==
  IF i > Len(refs)
    THEN passages
  ELSE
    LET book == refs[i][1]
        ch   == refs[i][2]
    IN  IF book = current_book /\ ch = prev_ch + 1
          THEN compress_loop_no_final_flush(refs, i + 1, current_book, current_start,
                 ch, passages)
          ELSE compress_loop_no_final_flush(refs, i + 1, book, ch, ch,
                 Append(passages, flush(current_book, current_start, prev_ch)))

\* the for loop of _compress_chapter_refs over chapter_refs[1:], then the
\* final flush
RECURSIVE compress_loop(_, _, _, _, _, _)
compress_loop(refs, i, current_book, current_start, prev_ch, passages) ==
  IF i > Len(refs)
    THEN Append(passages, flush(current_book, current_start, prev_ch))
  ELSE
    LET book == refs[i][1]
        ch   == refs[i][2]
    IN  IF book = current_book /\ ch = prev_ch + 1
          THEN compress_loop(refs, i + 1, current_book, current_start, ch, passages)
          ELSE compress_loop(refs, i + 1, book, ch, ch,
                 Append(passages, flush(current_book, current_start, prev_ch)))

compress_chapter_refs(refs) ==
  IF refs = <<>> THEN <<>>
  ELSE compress_loop(refs, 2, refs[1][1], refs[1][2], refs[1][2], <<>>)

(***************************************************************************)
(* Plan partitioners.  Each returns the dict of the code (passages, theme) *)
(* and, under "streams", the locals that decide it: for every stream the   *)
(* day within the stream, the number of days it is spread over, its        *)
(* length, the slice bounds and the slice.                                 *)
(***************************************************************************)
Stream(name, kind, day, total_days, seq, start, end) ==
  [name |-> name, kind |-> kind, day |-> day, total_days |-> total_days,
   n |-> Len(seq), start |-> start, end |-> end,
   chapters |-> Slice(seq, start, end)]

\* variant: the day index taken as 0-based
generate_chronological_plan_zero_based(d) ==
  LET sequence       == chapter_sequence
      total_chapters == Len(sequence)
      start_idx      == IntFloatMul(d, total_chapters, 365)
      end_idx        == IF d = 365 THEN total_chapters
                        ELSE IntFloatMul(d + 1, total_chapters, 365)
      s              == Stream("main", "even", d, 365, sequence, start_idx, end_idx)
  IN  [passages |-> compress_chapter_refs(s.chapters),
       theme    |-> <<"Chronological Journey">>,
       day_index |-> d,
       streams  |-> <<s>>]

generate_chronological_plan(d) ==
  LET sequence       == chapter_sequence
      total_chapters == Len(sequence)
      start_idx      == IntFloatMul(d - 1, total_chapters, 365)
      end_idx        == IF d = 365 THEN total_chapters
                        ELSE IntFloatMul(d, total_chapters, 365)
      s              == Stream("main", "even", d, 365, sequence, start_idx, end_idx)
  IN  [passages |-> compress_chapter_refs(s.chapters),
       theme    |-> <<"Chronological Journey">>,
       day_index |-> d,
       streams  |-> <<s>>]

classic_ot_seq == ExpandBooks(classic_ot_books, 1)

classic_ps_prov_seq ==
  [ch \in 1..150 |-> <<"Psalms", ch>>] \o [ch \in 1..31 |-> <<"Proverbs", ch>>]

classic_nt_seq == ExpandBooks(classic_nt_books, 1)

generate_old_psalms_new_plan(d) ==
  LET ot_seq        == classic_ot_seq
      ps_prov_seq   == classic_ps_prov_seq
      nt_seq        == classic_nt_seq
      ps_prov_cycle == Len(ps_prov_seq)
      ot_start      == IntFloatMul(d - 1, Len(ot_seq), 365)
      ot_end        == IF d = 365 THEN Len(ot_seq)
                       ELSE IntFloatMul(d, Len(ot_seq), 365)
      ps_prov_idx   == ((d - 1) * 2) % ps_prov_cycle
      nt_start      == IntFloatMul(d - 1, Len(nt_seq), 365)
      nt_end        == IF d = 365 THEN Len(nt_seq)
                       ELSE IntFloatMul(d, Len(nt_seq), 365)
      ot            == Stream("ot", "even", d, 365, ot_seq, ot_start, ot_end)
      ps            == Stream("ps_prov", "cyclic", d, 365, ps_prov_seq,
                              ps_prov_idx, ps_prov_idx + 2)
      nt            == Stream("nt", "even", d, 365, nt_seq, nt_start, nt_end)
  IN  [passages |-> compress_chapter_refs(ot.chapters)
                    \o compress_chapter_refs(ps.chapters)
                    \o compress_chapter_refs(nt.chapters),
       theme    |-> <<"Old Testament, Psalms/Proverbs, New Testament">>,
       day_index |-> d,
       streams  |-> <<ot, ps, nt>>]

split_ot_seq == ExpandBooks(split_ot_books, 1)

split_nt_seq == ExpandBooks(split_nt_books, 1)

\* variant: the last Old Testament day keeps the float product as its end
generate_old_new_split_plan_no_half_override(d) ==
  IF d <= 183
    THEN
      LET ot_seq    == split_ot_seq
          start_idx == IntFloatMul(d - 1, Len(ot_seq), 183)
          end_idx   == IntFloatMul(d, Len(ot_seq), 183)
          s         == Stream("ot", "even", d, 183, ot_seq, start_idx, end_idx)
      IN  [passages |-> compress_chapter_refs(s.chapters),
           theme    |-> <<"Old Testament">>,
           day_index |-> d,
           streams  |-> <<s>>]
    ELSE
      LET nt_seq    == split_nt_seq
          nt_day    == d - 183
          start_idx == IntFloatMul(nt_day - 1, Len(nt_seq), 182)
          end_idx   == IF d = 365 THEN Len(nt_seq)
                       ELSE IntFloatMul(nt_day, Len(nt_seq), 182)
          s         == Stream("nt", "even", nt_day, 182, nt_seq, start_idx, end_idx)
      IN  [passages |-> compress_chapter_refs(s.chapters),
           theme    |-> <<"New Testament">>,
           day_index |-> d,
           streams  |-> <<s>>]

\* variant: the New Testament half indexed by day_index instead of nt_day
generate_old_new_split_plan_nt_day_slip(d) ==
  IF d <= 183
    THEN
      LET ot_seq    == split_ot_seq
          start_idx == IntFloatMul(d - 1, Len(ot_seq), 183)
          end_idx   == IF d = 183 THEN Len(ot_seq)
                       ELSE IntFloatMul(d, Len(ot_seq), 183)
          s         == Stream("ot", "even", d, 183, ot_seq, start_idx, end_idx)
      IN  [passages |-> compress_chapter_refs(s.chapters),
           theme    |-> <<"Old Testament">>,
           day_index |-> d,
           streams  |-> <<s>>]
    ELSE
      LET nt_seq    == split_nt_seq
          nt_day    == d - 183
          start_idx == IntFloatMul(d - 1, Len(nt_seq), 182)
          end_idx   == IF d = 365 THEN Len(nt_seq)
                       ELSE IntFloatMul(d, Len(nt_seq), 182)
          s         == Stream("nt", "even", nt_day, 182, nt_seq, start_idx, end_idx)
      IN  [passages |-> compress_chapter_refs(s.chapters),
           theme    |-> <<"New Testament">>,
           day_index |-> d,
           streams  |-> <<s>>]

generate_old_new_split_plan(d) ==
  IF d <= 183
    THEN
      LET ot_seq    == split_ot_seq
          start_idx == IntFloatMul(d - 1, Len(ot_seq), 183)
          end_idx   == IF d = 183 THEN Len(ot_seq)
                       ELSE IntFloatMul(d, Len(ot_seq), 183)
          s         == Stream("ot", "even", d, 183, ot_seq, start_idx, end_idx)
      IN  [passages |-> compress_chapter_refs(s.chapters),
           theme    |-> <<"Old Testament">>,
           day_index |-> d,
       streams  |-> <<s>>]
    ELSE
      LET nt_seq    == split_nt_seq
          nt_day    == d - 183
          start_idx == IntFloatMul(nt_day - 1, Len(nt_seq), 182)
          end_idx   == IF d = 365 THEN Len(nt_seq)
                       ELSE IntFloatMul(nt_day, Len(nt_seq), 182)
          s         == Stream("nt", "even", nt_day, 182, nt_seq, start_idx, end_idx)
      IN  [passages |-> compress_chapter_refs(s.chapters),
           theme    |-> <<"New Testament">>,
           day_index |-> d,
       streams  |-> <<s>>]

\* " ".join(passages)
RECURSIVE JoinSpace(_, _)
JoinSpace(strs, i) ==
  IF i > Len(strs) THEN <<>>
  ELSE IF i = Len(strs) THEN strs[i]
  ELSE strs[i] \o <<" ">> \o JoinSpace(strs, i + 1)

\* needle in haystack
Contains(haystack, needle) ==
  \E i \in 1..(Len(haystack) - Len(needle) + 1) :
    SubSeq(haystack, i, i + Len(needle) - 1) = needle

\* str.split(): the maximal runs of non-space characters
RECURSIVE SplitWords(_, _, _)
SplitWords(s, i, cur) ==
  IF i > Len(s) THEN (IF cur = <<>> THEN <<>> ELSE <<cur>>)
  ELSE IF s[i] = " "
    THEN (IF cur = <<>> THEN SplitWords(s, i + 1, <<>>)
          ELSE <<cur>> \o SplitWords(s, i + 1, <<>>))
  ELSE SplitWords(s, i + 1, Append(cur, s[i]))

\* _parse_reference: the last word is the chapter, the words before it the book
parse_reference(reference) ==
  LET parts == SplitWords(reference, 1, <<>>)
  IN  IF Len(parts) < 2 THEN <<reference, <<"1">>>>
      ELSE <<JoinSpace(SubSeq(parts, 1, Len(parts) - 1), 1), parts[Len(parts)]>>

\* re.split(r"[-:]", chapter)
RECURSIVE split_chapter(_, _, _)
split_chapter(s, i, cur) ==
  IF i > Len(s) THEN <<cur>>
  ELSE IF s[i] = "-" \/ s[i] = ":" THEN <<cur>> \o split_chapter(s, i + 1, <<>>)
  ELSE split_chapter(s, i + 1, Append(cur, s[i]))

\* variant: the Psalm added on every day up to 150, present or not
generate_chronological_cross_ref_plan_always_psalm(d) ==
  LET sequence       == chapter_sequence
      total_chapters == Len(sequence)
      start_idx      == IntFloatMul(d - 1, total_chapters, 365)
      end_idx        == IF d = 365 THEN total_chapters
                        ELSE IntFloatMul(d, total_chapters, 365)
      s              == Stream("main", "even", d, 365, sequence, start_idx, end_idx)
      passages       == compress_chapter_refs(s.chapters)
      ps_idx         == ((d - 1) % 150) + 1
      psalm          == <<"P", "s", "a", "l", "m", " ">> \o IntToStr(ps_idx)
  IN  [passages |-> IF d <= 150 THEN Append(passages, psalm) ELSE passages,
       theme    |-> <<"Chronological Cross-Reference">>,
       day_index |-> d,
       streams  |-> <<s>>]

generate_chronological_cross_ref_plan(d) ==
  LET sequence       == chapter_sequence
      total_chapters == Len(sequence)
      start_idx      == IntFloatMul(d - 1, total_chapters, 365)
      end_idx        == IF d = 365 THEN total_chapters
                        ELSE IntFloatMul(d, total_chapters, 365)
      s              == Stream("main", "even", d, 365, sequence, start_idx, end_idx)
      passages       == compress_chapter_refs(s.chapters)
      ps_idx         == ((d - 1) % 150) + 1
      psalm          == <<"P", "s", "a", "l", "m", " ">> \o IntToStr(ps_idx)
  IN  [passages |-> IF d <= 150
                      /\ ~Contains(JoinSpace(passages, 1),
                                   <<"P", "s", "a", "l", "m", "s">>)
                    THEN Append(passages, psalm)
                    ELSE passages,
       theme    |-> <<"Chronological Cross-Reference">>,
       day_index |-> d,
       streams  |-> <<s>>]

fivexfive_nt_seq == ExpandBooks(fivexfive_nt_books, 1)

\* variant: the day index used as the cycle day, without the wrap
generate_fivexfive_new_testament_plan_no_wrap(d) ==
  LET nt_seq             == fivexfive_nt_seq
      total_reading_days == 260
      day_in_plan        == d
      start_idx          == IntFloatMul(day_in_plan - 1, Len(nt_seq), total_reading_days)
      end_idx            == IF day_in_plan = total_reading_days THEN Len(nt_seq)
                            ELSE IntFloatMul(day_in_plan, Len(nt_seq), total_reading_days)
      s                  == Stream("nt", "even", day_in_plan, total_reading_days,
                                   nt_seq, start_idx, end_idx)
  IN  [passages |-> compress_chapter_refs(s.chapters),
       theme    |-> <<"5x5x5 New Testament">>,
       day_index |-> d,
       streams  |-> <<s>>]

generate_fivexfive_new_testament_plan(d) ==
  LET nt_seq             == fivexfive_nt_seq
      total_reading_days == 260
      day_in_plan        == ((d - 1) % total_reading_days) + 1
      start_idx          == IntFloatMul(day_in_plan - 1, Len(nt_seq), total_reading_days)
      end_idx            == IF day_in_plan = total_reading_days THEN Len(nt_seq)
                            ELSE IntFloatMul(day_in_plan, Len(nt_seq), total_reading_days)
      s                  == Stream("nt", "even", day_in_plan, total_reading_days,
                                   nt_seq, start_idx, end_idx)
  IN  [passages |-> compress_chapter_refs(s.chapters),
       theme    |-> <<"5x5x5 New Testament">>,
       day_index |-> d,
       streams  |-> <<s>>]

mcheyne_history_seq == ExpandBooks(mcheyne_ot_history, 1)

mcheyne_prophets_poetry_seq == ExpandBooks(mcheyne_ot_prophets_poetry, 1)

mcheyne_nt_seq == ExpandBooks(mcheyne_nt_books, 1)

\* variant: no `if day_index == 365` override of the three ends
generate_mcheyne_plan_no_last_day(d) ==
  LET history_seq         == mcheyne_history_seq
      prophets_poetry_seq == mcheyne_prophets_poetry_seq
      nt_seq              == mcheyne_nt_seq
      h_start  == IntFloatMul(d - 1, Len(history_seq), 365)
      h_end    == Max(IntFloatMul(d, Len(history_seq), 365), h_start + 1)
      pp_start == IntFloatMul(d - 1, Len(prophets_poetry_seq), 365)
      pp_end   == Max(IntFloatMul(d, Len(prophets_poetry_seq), 365), pp_start + 1)
      nt_start == IntFloatMul(d - 1, Len(nt_seq), 365)
      nt_end   == Max(IntFloatMul(d, Len(nt_seq), 365), nt_start + 1)
      ps_num   == ((d - 1) % 150) + 1
      h        == Stream("history", "even_min1", d, 365, history_seq, h_start, h_end)
      pp       == Stream("prophets", "even_min1", d, 365, prophets_poetry_seq,
                         pp_start, pp_end)
      nt       == Stream("nt", "even_min1", d, 365, nt_seq, nt_start, nt_end)
  IN  [passages |-> compress_chapter_refs(h.chapters)
                    \o compress_chapter_refs(pp.chapters)
                    \o compress_chapter_refs(nt.chapters)
                    \o << <<"P", "s", "a", "l", "m", " ">> \o IntToStr(ps_num) >>,
       theme    |-> <<"M'Cheyne Plan (4 Readings)">>,
       day_index |-> d,
       streams  |-> <<h, pp, nt>>]

\* variant: plain even split, without max(end, start + 1)
generate_mcheyne_plan_plain_split(d) ==
  LET history_seq         == mcheyne_history_seq
      prophets_poetry_seq == mcheyne_prophets_poetry_seq
      nt_seq              == mcheyne_nt_seq
      h_start  == IntFloatMul(d - 1, Len(history_seq), 365)
      h_end    == IF d = 365 THEN Len(history_seq)
                  ELSE IntFloatMul(d, Len(history_seq), 365)
      pp_start == IntFloatMul(d - 1, Len(prophets_poetry_seq), 365)
      pp_end   == IF d = 365 THEN Len(prophets_poetry_seq)
                  ELSE IntFloatMul(d, Len(prophets_poetry_seq), 365)
      nt_start == IntFloatMul(d - 1, Len(nt_seq), 365)
      nt_end   == IF d = 365 THEN Len(nt_seq)
                  ELSE IntFloatMul(d, Len(nt_seq), 365)
      ps_num   == ((d - 1) % 150) + 1
      h        == Stream("history", "even_min1", d, 365, history_seq, h_start, h_end)
      pp       == Stream("prophets", "even_min1", d, 365, prophets_poetry_seq,
                         pp_start, pp_end)
      nt       == Stream("nt", "even_min1", d, 365, nt_seq, nt_start, nt_end)
  IN  [passages |-> compress_chapter_refs(h.chapters)
                    \o compress_chapter_refs(pp.chapters)
                    \o compress_chapter_refs(nt.chapters)
                    \o << <<"P", "s", "a", "l", "m", " ">> \o IntToStr(ps_num) >>,
       theme    |-> <<"M'Cheyne Plan (4 Readings)">>,
       day_index |-> d,
       streams  |-> <<h, pp, nt>>]

generate_mcheyne_plan(d) ==
  LET history_seq         == mcheyne_history_seq
      prophets_poetry_seq == mcheyne_prophets_poetry_seq
      nt_seq              == mcheyne_nt_seq
      h_start  == IntFloatMul(d - 1, Len(history_seq), 365)
      h_end    == IF d = 365 THEN Len(history_seq)
                  ELSE Max(IntFloatMul(d, Len(history_seq), 365), h_start + 1)
      pp_start == IntFloatMul(d - 1, Len(prophets_poetry_seq), 365)
      pp_end   == IF d = 365 THEN Len(prophets_poetry_seq)
                  ELSE Max(IntFloatMul(d, Len(prophets_poetry_seq), 365), pp_start + 1)
      nt_start == IntFloatMul(d - 1, Len(nt_seq), 365)
      nt_end   == IF d = 365 THEN Len(nt_seq)
                  ELSE Max(IntFloatMul(d, Len(nt_seq), 365), nt_start + 1)
      ps_num   == ((d - 1) % 150) + 1
      h        == Stream("history", "even_min1", d, 365, history_seq, h_start, h_end)
      pp       == Stream("prophets", "even_min1", d, 365, prophets_poetry_seq,
                         pp_start, pp_end)
      nt       == Stream("nt", "even_min1", d, 365, nt_seq, nt_start, nt_end)
  IN  [passages |-> compress_chapter_refs(h.chapters)
                    \o compress_chapter_refs(pp.chapters)
                    \o compress_chapter_refs(nt.chapters)
                    \o << <<"P", "s", "a", "l", "m", " ">> \o IntToStr(ps_num) >>,
       theme    |-> <<"M'Cheyne Plan (4 Readings)">>,
       day_index |-> d,
       streams  |-> <<h, pp, nt>>]

genre_order == <<"Law", "History", "Poetry", "Prophets", "Gospels", "Epistles">>

all_books_by_genre ==
  "Law" :> genre_Law @@ "History" :> genre_History @@ "Poetry" :> genre_Poetry
  @@ "Prophets" :> genre_Prophets @@ "Gospels" :> genre_Gospels
  @@ "Epistles" :> genre_Epistles

\* for genre in genre_order: for book, count in all_books_by_genre[genre]: ...
RECURSIVE genre_sequence(_)
genre_sequence(i) ==
  IF i > Len(genre_order) THEN <<>>
  ELSE ExpandBooks(all_books_by_genre[genre_order[i]], 1) \o genre_sequence(i + 1)

genre_full_sequence == genre_sequence(1)

\* for genre, books in all_books_by_genre.items(): first genre listing the book
RECURSIVE genre_of_book(_, _)
genre_of_book(first_book, i) ==
  IF i > Len(genre_order) THEN "Bible"
  ELSE IF \E k \in 1..Len(all_books_by_genre[genre_order[i]]) :
            all_books_by_genre[genre_order[i]][k][1] = first_book
         THEN genre_order[i]
         ELSE genre_of_book(first_book, i + 1)

\* variant: the genre taken from the last chapter of the day
generate_52_week_genre_plan_last_chapter(d) ==
  LET full_sequence  == genre_full_sequence
      total_chapters == Len(full_sequence)
      start_idx      == IntFloatMul(d - 1, total_chapters, 365)
      end_idx        == IF d = 365 THEN total_chapters
                        ELSE IntFloatMul(d, total_chapters, 365)
      s              == Stream("main", "even", d, 365, full_sequence, start_idx, end_idx)
      current_genre  == IF s.chapters = <<>> THEN "Bible"
                        ELSE genre_of_book(s.chapters[Len(s.chapters)][1], 1)
  IN  [passages |-> compress_chapter_refs(s.chapters),
       theme    |-> <<"52 Week Plan - ", current_genre>>,
       day_index |-> d,
       streams  |-> <<s>>]

generate_52_week_genre_plan(d) ==
  LET full_sequence  == genre_full_sequence
      total_chapters == Len(full_sequence)
      start_idx      == IntFloatMul(d - 1, total_chapters, 365)
      end_idx        == IF d = 365 THEN total_chapters
                        ELSE IntFloatMul(d, total_chapters, 365)
      s              == Stream("main", "even", d, 365, full_sequence, start_idx, end_idx)
      current_genre  == IF s.chapters = <<>> THEN "Bible"
                        ELSE genre_of_book(s.chapters[1][1], 1)
  IN  [passages |-> compress_chapter_refs(s.chapters),
       theme    |-> <<"52 Week Plan - ", current_genre>>,
       day_index |-> d,
       streams  |-> <<s>>]

\* variant: the start offset without the min
passages_for_day_index_no_min(d) ==
  LET sequence == chapter_sequence
  IN  IF sequence = <<>> THEN [passages |-> <<>>, day_index |-> d, streams |-> <<>>]
      ELSE
        LET total_chapters == Len(sequence)
            base  == total_chapters \div 365
            extra == total_chapters % 365
            start == IF d > 1 THEN (d - 1) * base + extra ELSE 0
            size  == base + (IF d <= extra THEN 1 ELSE 0)
            end   == Min(start + size, total_chapters)
            s     == Stream("main", "int_split", d, 365, sequence, start, end)
        IN  [passages |-> compress_chapter_refs(s.chapters), day_index |-> d,
             streams |-> <<s>>]

\* variant: the real-valued split of _generate_chronological_plan
passages_for_day_index_float_split(d) ==
  LET sequence == chapter_sequence
  IN  IF sequence = <<>> THEN [passages |-> <<>>, day_index |-> d, streams |-> <<>>]
      ELSE
        LET total_chapters == Len(sequence)
            start == IntFloatMul(d - 1, total_chapters, 365)
            end   == IF d = 365 THEN total_chapters
                     ELSE IntFloatMul(d, total_chapters, 365)
            s     == Stream("main", "int_split", d, 365, sequence, start, end)
        IN  [passages |-> compress_chapter_refs(s.chapters), day_index |-> d,
             streams |-> <<s>>]

\* _passages_for_day_index: integer split, the first `extra` days one longer
passages_for_day_index(d) ==
  LET sequence == chapter_sequence
  IN  IF sequence = <<>> THEN [passages |-> <<>>, day_index |-> d, streams |-> <<>>]
      ELSE
        LET total_chapters == Len(sequence)
            base  == total_chapters \div 365
            extra == total_chapters % 365
            start == IF d > 1 THEN (d - 1) * base + Min(d - 1, extra) ELSE 0
            size  == base + (IF d <= extra THEN 1 ELSE 0)
            end   == Min(start + size, total_chapters)
            s     == Stream("main", "int_split", d, 365, sequence, start, end)
        IN  [passages |-> compress_chapter_refs(s.chapters), day_index |-> d,
             streams |-> <<s>>]

(***************************************************************************)
(* Date Mapper.  A date is [year, month, day]; the arithmetic of            *)
(* datetime.date (day of year, ordinal, difference in days) is spelled out. *)
(***************************************************************************)
IsLeap(y) == y % 4 = 0 /\ (y % 100 # 0 \/ y % 400 = 0)

DaysInMonth(y, m) ==
  IF m = 2 THEN (IF IsLeap(y) THEN 29 ELSE 28)
  ELSE IF m \in {4, 6, 9, 11} THEN 30 ELSE 31

RECURSIVE DaysBeforeMonth(_, _)
DaysBeforeMonth(y, m) ==
  IF m <= 1 THEN 0 ELSE DaysBeforeMonth(y, m - 1) + DaysInMonth(y, m - 1)

\* reading_date.timetuple().tm_yday
tm_yday(dt) == DaysBeforeMonth(dt.year, dt.month) + dt.day

\* date.toordinal(): days since 0001-01-01, that day being 1
ToOrdinal(dt) ==
  LET y == dt.year - 1
  IN  y * 365 + (y \div 4) - (y \div 100) + (y \div 400) + tm_yday(dt)

\* (a - b).days
DaysBetween(a, b) == ToOrdinal(a) - ToOrdinal(b)

IsDate(dt) ==
  /\ dt.year \in 1..9999
  /\ dt.month \in 1..12
  /\ dt.day \in 1..DaysInMonth(dt.year, dt.month)

IsDigit(c) == \E k \in 1..10 : Digits[k] = c

DigitVal(c) == (CHOOSE k \in 1..10 : Digits[k] = c) - 1

RECURSIVE StrToInt(_)
StrToInt(s) ==
  IF s = <<>> THEN 0
  ELSE StrToInt(SubSeq(s, 1, Len(s) - 1)) * 10 + DigitVal(s[Len(s)])

AllDigits(s) == \A i \in 1..Len(s) : IsDigit(s[i])

\* date.fromisoformat(s) on the extended form YYYY-MM-DD; ok = FALSE stands
\* for the ValueError that every other string raises
fromisoformat(s) ==
  LET wellformed == /\ Len(s) = 10
                    /\ s[5] = "-" /\ s[8] = "-"
                    /\ AllDigits(SubSeq(s, 1, 4))
                    /\ AllDigits(SubSeq(s, 6, 7))
                    /\ AllDigits(SubSeq(s, 9, 10))
      dt == [year  |-> StrToInt(SubSeq(s, 1, 4)),
             month |-> StrToInt(SubSeq(s, 6, 7)),
             day   |-> StrToInt(SubSeq(s, 9, 10))]
  IN  IF wellformed /\ IsDate(dt) THEN [ok |-> TRUE, date |-> dt]
      ELSE [ok |-> FALSE, date |-> [year |-> 0, month |-> 0, day |-> 0]]

\* variant: the fallback start a year earlier, in a year without 29 February
plan_start_or_default_2023(start_date_str) ==
  LET parsed == fromisoformat(start_date_str)
  IN  IF parsed.ok THEN parsed.date ELSE [year |-> 2023, month |-> 1, day |-> 1]

\* try: date.fromisoformat(start_date_str) except Exception: date(2024, 1, 1)
plan_start_or_default(start_date_str) ==
  LET parsed == fromisoformat(start_date_str)
  IN  IF parsed.ok THEN parsed.date ELSE [year |-> 2024, month |-> 1, day |-> 1]

\* variant: the day of year passed on without the clamp
day_of_year_index_unclamped(dt) == tm_yday(dt)

\* variant: every day of a leap year moved one back instead of clamping day 366
day_of_year_index_leap_shift(dt) ==
  IF IsLeap(dt.year) THEN Max(tm_yday(dt) - 1, 1) ELSE tm_yday(dt)

\* day-of-year mode: min(reading_date.timetuple().tm_yday, 365)
day_of_year_index(dt) == Min(tm_yday(dt), 365)

\* remainder truncated toward zero, as % is in C or Java
TruncRem(a, b) == IF a >= 0 THEN a % b ELSE 0 - ((0 - a) % b)

\* variant: the wrap computed with a truncating remainder
dynamic_day_index_trunc(dt, plan) ==
  LET start == plan_start_or_default(plan.start_date)
      raw   == DaysBetween(dt, start) + 1
  IN  TruncRem(raw - 1, 365) + 1

\* elapsed-days mode of _generate_dynamic_reading
dynamic_day_index(dt, plan) ==
  LET start == plan_start_or_default(plan.start_date)
      raw   == DaysBetween(dt, start) + 1
  IN  ((raw - 1) % 365) + 1

generate_dynamic_reading(dt, plan) ==
  LET r == passages_for_day_index(dynamic_day_index(dt, plan))
  IN  [passages |-> r.passages, theme |-> <<"Chronological Journey">>,
       day_index |-> r.day_index, streams |-> r.streams]

generate_old_psalms_new_plan_for_date(dt) ==
  generate_old_psalms_new_plan(day_of_year_index(dt))

\* variant: a name the chain does not know handed to the chronological
\* generator
generate_plan_reading_chronological_fallback(dt, p) ==
  LET d == day_of_year_index(dt)
  IN  IF p = "augustine_classic" \/ p = "aquinas_classic"
        THEN generate_old_psalms_new_plan(d)
      ELSE IF p = "chronological_cross_ref"
        THEN generate_chronological_cross_ref_plan(d)
      ELSE IF p = "fivexfive_new_testament"
        THEN generate_fivexfive_new_testament_plan(d)
      ELSE IF p = "mcheyne" THEN generate_mcheyne_plan(d)
      ELSE IF p = "52_week_genre" THEN generate_52_week_genre_plan(d)
      ELSE IF p = "chronological" THEN generate_chronological_plan(d)
      ELSE IF p = "old_psalms_new" THEN generate_old_psalms_new_plan(d)
      ELSE IF p = "old_new_split" THEN generate_old_new_split_plan(d)
      ELSE generate_chronological_plan(d)

\* variant: the genre plan listed under another name in the chain
generate_plan_reading_genre_renamed(dt, p) ==
  LET d == day_of_year_index(dt)
  IN  IF p = "augustine_classic" \/ p = "aquinas_classic"
        THEN generate_old_psalms_new_plan(d)
      ELSE IF p = "chronological_cross_ref"
        THEN generate_chronological_cross_ref_plan(d)
      ELSE IF p = "fivexfive_new_testament"
        THEN generate_fivexfive_new_testament_plan(d)
      ELSE IF p = "mcheyne" THEN generate_mcheyne_plan(d)
      ELSE IF p = "genre_52week" THEN generate_52_week_genre_plan(d)
      ELSE IF p = "chronological" THEN generate_chronological_plan(d)
      ELSE IF p = "old_psalms_new" THEN generate_old_psalms_new_plan(d)
      ELSE IF p = "old_new_split" THEN generate_old_new_split_plan(d)
      ELSE LET r == passages_for_day_index(d)
           IN  [passages |-> r.passages, theme |-> <<"Daily Bread">>,
                day_index |-> r.day_index, streams |-> r.streams]

\* the if/elif chain of _generate_plan_reading
generate_plan_reading(dt, p) ==
  LET d == day_of_year_index(dt)
  IN  IF p = "augustine_classic" \/ p = "aquinas_classic"
        THEN generate_old_psalms_new_plan(d)
      ELSE IF p = "chronological_cross_ref"
        THEN generate_chronological_cross_ref_plan(d)
      ELSE IF p = "fivexfive_new_testament"
        THEN generate_fivexfive_new_testament_plan(d)
      ELSE IF p = "mcheyne" THEN generate_mcheyne_plan(d)
      ELSE IF p = "52_week_genre" THEN generate_52_week_genre_plan(d)
      ELSE IF p = "chronological" THEN generate_chronological_plan(d)
      ELSE IF p = "old_psalms_new" THEN generate_old_psalms_new_plan(d)
      ELSE IF p = "old_new_split" THEN generate_old_new_split_plan(d)
      ELSE LET r == passages_for_day_index(d)
           IN  [passages |-> r.passages, theme |-> <<"Daily Bread">>,
                day_index |-> r.day_index, streams |-> r.streams]

(***************************************************************************)
(* Stored plan.  A plan is [start_date, total_days, readings]; readings is *)
(* the dict of the JSON file, a function from "YYYY-MM-DD" keys to         *)
(* [passages, theme].  name and description are carried by the file only.  *)
(***************************************************************************)
\* date.fromordinal(n), the inverse of toordinal
FromOrdinal(n) ==
  LET Jan1(y) == ToOrdinal([year |-> y, month |-> 1, day |-> 1])
      y   == CHOOSE c \in (n \div 366)..((n \div 365) + 1) :
               c >= 1 /\ Jan1(c) <= n /\ n < Jan1(c + 1)
      doy == n - Jan1(y) + 1
      m   == CHOOSE c \in 1..12 :
               /\ DaysBeforeMonth(y, c) < doy
               /\ doy <= DaysBeforeMonth(y, c) + DaysInMonth(y, c)
  IN  [year |-> y, month |-> m, day |-> doy - DaysBeforeMonth(y, m)]

\* start + timedelta(days=k)
AddDays(dt, k) == FromOrdinal(ToOrdinal(dt) + k)

RECURSIVE ZeroPad(_, _)
ZeroPad(s, width) == IF Len(s) >= width THEN s ELSE ZeroPad(<<"0">> \o s, width)

\* strftime("%Y-%m-%d")
strftime(dt) ==
  ZeroPad(IntToStr(dt.year), 4) \o <<"-">> \o ZeroPad(IntToStr(dt.month), 2)
    \o <<"-">> \o ZeroPad(IntToStr(dt.day), 2)

\* date(year, month, day): ValueError when the day does not exist
make_date(y, m, d) ==
  LET dt == [year |-> y, month |-> m, day |-> d]
  IN  IF IsDate(dt) THEN [ok |-> TRUE, date |-> dt]
      ELSE [ok |-> FALSE, date |-> [year |-> 0, month |-> 0, day |-> 0]]

\* _ensure_plan_complete: total_days forced to 365, a start_date that does
\* not parse replaced, every missing day of the 365 from the start filled
\* with the stored split; a plan with 365 readings or more is left as it is.
\* The loop writes readings[key] for key = strftime(start + day_offset - 1);
\* here the day_offset of a key is read back from the key.
ensure_plan_complete(plan) ==
  LET total_days == 365
      start      == plan_start_or_default(plan.start_date)
      start_date == IF fromisoformat(plan.start_date).ok THEN plan.start_date
                    ELSE strftime(start)
      readings   == plan.readings
      keys       == {strftime(AddDays(start, day_offset - 1)) :
                       day_offset \in 1..total_days}
      filled     == [key \in DOMAIN readings \cup keys |->
                       IF key \in DOMAIN readings THEN readings[key]
                       ELSE LET day_offset ==
                                  DaysBetween(fromisoformat(key).date, start) + 1
                            IN  [passages |-> passages_for_day_index(day_offset).passages,
                                 theme    |-> <<"Chronological Journey">>]]
  IN  [start_date |-> start_date,
       total_days |-> total_days,
       readings   |-> IF Cardinality(DOMAIN readings) >= total_days THEN readings
                      ELSE filled]

\* the empty function, a dict without entries
NoReadings == [key \in {} |-> [passages |-> <<>>, theme |-> <<>>]]

\* get_reading_for_date.  outcome tells how the call ended: it raised, it
\* returned the stored entry, or it returned a generated reading.  A stored
\* entry comes back without a day index, none being computed on that path.
\* The commentaries dict of the two commentary plans is not modelled.
get_reading_for_date(dt, p, plan) ==
  IF p = "augustine_classic"
    THEN [outcome |-> "reading_generated",
          r |-> [generate_plan_reading(dt, "chronological") EXCEPT
                   !.theme = <<"Augustine's Commentary on Chronological Reading">>]]
  ELSE IF p = "aquinas_classic"
    THEN [outcome |-> "reading_generated",
          r |-> [generate_plan_reading(dt, "chronological") EXCEPT
                   !.theme = <<"Aquinas's Commentary on Chronological Reading">>]]
  ELSE IF p # "classic"
    THEN [outcome |-> "reading_generated", r |-> generate_plan_reading(dt, p)]
  ELSE
    LET normalized_date == make_date(plan_start_or_default(plan.start_date).year,
                                     dt.month, dt.day)
    IN  IF ~normalized_date.ok
          THEN [outcome |-> "raised",
                r |-> [passages |-> <<>>, theme |-> <<>>, day_index |-> 0,
                       streams |-> <<>>]]
        ELSE IF /\ strftime(normalized_date.date) \in DOMAIN plan.readings
                /\ Len(plan.readings[strftime(normalized_date.date)].passages) >= 3
          THEN [outcome |-> "reading_stored",
                r |-> [passages |-> plan.readings[strftime(normalized_date.date)].passages,
                       theme    |-> plan.readings[strftime(normalized_date.date)].theme,
                       day_index |-> 0, streams |-> <<>>]]
        ELSE [outcome |-> "reading_generated",
              r |-> generate_old_psalms_new_plan_for_date(dt)]

(***************************************************************************)
(* Bounds and input sets                                                   *)
(***************************************************************************)
MaxLen == 3

MaxChapter == 2

FirstYear == 2023

NumYears == 3

\* books of the canon table used for the compressor's inputs
InputBooks == {"Genesis", "Job", "1 Samuel"}

\* low chapters and the one-digit/two-digit border
InputChapters == (1..MaxChapter) \cup {9, 10, 11}

InputUnits ==
  {<<b, ch>> : b \in InputBooks, ch \in InputChapters} \cup {<<"Genesis", 50>>}

InputLists == UNION {[1..k -> InputUnits] : k \in 0..MaxLen}

Dates ==
  {dt \in [year : FirstYear..(FirstYear + NumYears - 1), month : 1..12, day : 1..31] :
     IsDate(dt)}

\* values of plan_type that reach _generate_plan_reading: the eight it
\* names, two names it does not know and the two commentary plans
PlanTypes ==
  {"chronological", "chronological_cross_ref", "old_psalms_new", "old_new_split",
   "mcheyne", "fivexfive_new_testament", "52_week_genre",
   "augustine_classic", "aquinas_classic", "fivexfive_nt", "genre_52week"}

\* stored start_date strings: three dates, a month 13 and free text
StoredStartDates ==
  { <<"2", "0", "2", "4", "-", "0", "1", "-", "0", "1">>,
    <<"2", "0", "2", "3", "-", "0", "7", "-", "0", "4">>,
    <<"2", "0", "2", "4", "-", "0", "3", "-", "0", "1">>,
    <<"2", "0", "2", "4", "-", "1", "3", "-", "0", "1">>,
    <<"J", "a", "n", " ", "1">> }

DefaultStartDate == <<"2", "0", "2", "4", "-", "0", "1", "-", "0", "1">>

\* entries a stored file may hold already: one with three passages, one
\* with a single passage
CustomReadings ==
  (<<"2", "0", "2", "4", "-", "0", "1", "-", "0", "5">> :>
     [passages |-> <<BookChars["John"] \o <<" ", "1">>,
                     BookChars["John"] \o <<" ", "2">>,
                     BookChars["John"] \o <<" ", "3">> >>,
      theme    |-> <<"Stored">>])
  @@
  (<<"2", "0", "2", "4", "-", "0", "1", "-", "0", "6">> :>
     [passages |-> <<BookChars["John"] \o <<" ", "4">> >>,
      theme    |-> <<"Stored">>])

\* a year of stored entries, 1 January to 30 December 2024, one passage each
LastYearsReadings ==
  [key \in {strftime(AddDays([year |-> 2024, month |-> 1, day |-> 1], day_offset - 1)) :
              day_offset \in 1..365} |->
     [passages |-> <<BookChars["John"] \o <<" ", "4">> >>, theme |-> <<"Stored">>]]

\* contents of reading_plans.json: a plan with entries of its own, a plan
\* started in a year without 29 February, two plans whose start_date does
\* not parse, and a plan that holds a year of entries and starts a year later
PlanFiles ==
  {[exists |-> TRUE,
    plan   |-> [start_date |-> k[1], total_days |-> k[2], readings |-> k[3]]] :
     k \in {<<DefaultStartDate, 365, CustomReadings>>,
            <<<<"2", "0", "2", "3", "-", "0", "7", "-", "0", "4">>, 365, NoReadings>>,
            <<<<"2", "0", "2", "4", "-", "1", "3", "-", "0", "1">>, 365, NoReadings>>,
            <<<<"J", "a", "n", " ", "1">>, 30, CustomReadings>>,
            <<<<"2", "0", "2", "5", "-", "0", "1", "-", "0", "1">>, 365, LastYearsReadings>>}}

\* the plan _create_default_plan starts from
EmptyDefaultPlan ==
  [start_date |-> strftime([year |-> 2024, month |-> 1, day |-> 1]),
   total_days |-> 365,
   readings   |-> NoReadings]

\* plan objects whose start_date string does not parse, without entries
UnrepairedPlans ==
  {[file.plan EXCEPT !.readings = NoReadings] :
     file \in {f \in PlanFiles : ~fromisoformat(f.plan.start_date).ok}}

NoDate == [year |-> 0, month |-> 0, day |-> 0]

NoReading == [passages |-> <<>>, theme |-> <<>>]

StreamNames == {"main", "ot", "ps_prov", "nt", "history", "prophets"}

NothingAssigned == [s \in StreamNames |-> <<>>]

\* plans the year loop walks through, by the generator it calls
WalkPlans ==
  {"chronological", "chronological_cross_ref", "old_psalms_new", "old_new_split",
   "mcheyne", "fivexfive_new_testament", "52_week_genre", "stored"}

(***************************************************************************)
(* State after BibleReader.__init__ with the default plan                  *)
(***************************************************************************)
NoCommentaries == [by_passage |-> {}, by_day |-> <<>>]

CallsIdle == returned = <<>>

SingletonIdle ==
  /\ bible_reader = 0
  /\ constructed = 0
  /\ requests = <<>>

EnhancedIdle ==
  /\ enhanced_start_date = NoDate
  /\ passages_per_day = 0
  /\ enhanced_plan = <<>>
  /\ current_date = NoDate
  /\ passage_index = 0

GenerationIdle ==
  /\ commentaries = NoCommentaries
  /\ commentaries_file = NoCommentaries
  /\ day_commentaries = {}
  /\ next_passage = 0
  /\ rerun = FALSE

OthersIdle ==
  /\ CallsIdle
  /\ SingletonIdle
  /\ EnhancedIdle
  /\ GenerationIdle

InitReader ==
  /\ OthersIdle
  /\ chapter_sequence = build_chapter_sequence
  /\ reading = NoReading
  /\ streams = <<>>
  /\ assigned = NothingAssigned
  /\ compressed = <<>>

(***************************************************************************)
(* SpecYear: a caller asks one partitioner for day 1, 2, ..., 365 in turn  *)
(* (the loop of _ensure_plan_complete, `for day_offset in range(1,         *)
(* total_days + 1)`, and of generate_all_commentaries).  `assigned` keeps, *)
(* per stream, the concatenation of the slices handed out so far.          *)
(***************************************************************************)
InitYear ==
  /\ InitReader
  /\ reading_plan = [start_date |-> DefaultStartDate]
  /\ plan_type \in WalkPlans
  /\ reading_date = NoDate
  /\ day_index = 0
  /\ chapter_refs = <<>>
  /\ pc = "year"

StreamChapters(strs, name) ==
  IF \E i \in 1..Len(strs) : strs[i].name = name
    THEN (strs[CHOOSE i \in 1..Len(strs) : strs[i].name = name]).chapters
    ELSE <<>>

Deliver(r) ==
  /\ day_index' = r.day_index
  /\ reading' = [passages |-> r.passages, theme |-> r.theme]
  /\ streams' = r.streams
  /\ assigned' = [s \in StreamNames |-> assigned[s] \o StreamChapters(r.streams, s)]

NextDay(p) == pc = "year" /\ plan_type = p /\ day_index < 365

YearFrame == UNCHANGED <<chapter_sequence, reading_plan, plan_type, reading_date,
                         chapter_refs, compressed, pc, other_vars>>

GenerateChronologicalPlan ==
  /\ NextDay("chronological")
  /\ Deliver(generate_chronological_plan(day_index + 1))
  /\ YearFrame

GenerateChronologicalCrossRefPlan ==
  /\ NextDay("chronological_cross_ref")
  /\ Deliver(generate_chronological_cross_ref_plan(day_index + 1))
  /\ YearFrame

GenerateOldPsalmsNewPlan ==
  /\ NextDay("old_psalms_new")
  /\ Deliver(generate_old_psalms_new_plan(day_index + 1))
  /\ YearFrame

GenerateOldNewSplitPlan ==
  /\ NextDay("old_new_split")
  /\ Deliver(generate_old_new_split_plan(day_index + 1))
  /\ YearFrame

GenerateMcheynePlan ==
  /\ NextDay("mcheyne")
  /\ Deliver(generate_mcheyne_plan(day_index + 1))
  /\ YearFrame

GenerateFivexfiveNewTestamentPlan ==
  /\ NextDay("fivexfive_new_testament")
  /\ Deliver(generate_fivexfive_new_testament_plan(day_index + 1))
  /\ YearFrame

Generate52WeekGenrePlan ==
  /\ NextDay("52_week_genre")
  /\ Deliver(generate_52_week_genre_plan(day_index + 1))
  /\ YearFrame

\* readings[key] = {"passages": self._passages_for_day_index(day_offset), ...}
PassagesForDayIndex ==
  /\ NextDay("stored")
  /\ LET r == passages_for_day_index(day_index + 1)
     IN  Deliver([passages |-> r.passages, theme |-> <<"Chronological Journey">>,
                  day_index |-> r.day_index, streams |-> r.streams])
  /\ YearFrame

NextYear ==
  \/ GenerateChronologicalPlan
  \/ GenerateChronologicalCrossRefPlan
  \/ GenerateOldPsalmsNewPlan
  \/ GenerateOldNewSplitPlan
  \/ GenerateMcheynePlan
  \/ GenerateFivexfiveNewTestamentPlan
  \/ Generate52WeekGenrePlan
  \/ PassagesForDayIndex

SpecYear == InitYear /\ [][NextYear]_vars

(***************************************************************************)
(* SpecCompress: _compress_chapter_refs applied to a bounded list          *)
(***************************************************************************)
InitCompress ==
  /\ InitReader
  /\ reading_plan = [start_date |-> DefaultStartDate]
  /\ plan_type = "none"
  /\ reading_date = NoDate
  /\ day_index = 0
  /\ chapter_refs \in InputLists
  /\ pc = "compress"

CompressChapterRefs ==
  /\ pc = "compress"
  /\ compressed' = compress_chapter_refs(chapter_refs)
  /\ pc' = "compressed"
  /\ UNCHANGED <<chapter_sequence, reading_plan, plan_type, reading_date, day_index,
                 reading, streams, assigned, chapter_refs, other_vars>>

NextCompress == CompressChapterRefs

SpecCompress == InitCompress /\ [][NextCompress]_vars

(***************************************************************************)
(* SpecDate: one call with a calendar date.  Init draws the date, the plan *)
(* type and the stored start date; the action is the method called.        *)
(***************************************************************************)
InitDate ==
  /\ InitReader
  /\ reading_date \in Dates
  /\ day_index = 0
  /\ chapter_refs = <<>>
  /\ \/ /\ pc = "plan_reading"
        /\ plan_type \in PlanTypes
        /\ reading_plan = [start_date |-> DefaultStartDate]
     \/ /\ pc = "classic_for_date"
        /\ plan_type = "classic"
        /\ reading_plan = [start_date |-> DefaultStartDate]
     \/ /\ pc = "dynamic"
        /\ plan_type = "none"
        /\ reading_plan \in [start_date : StoredStartDates]

Return(r) ==
  /\ day_index' = r.day_index
  /\ reading' = [passages |-> r.passages, theme |-> r.theme]
  /\ streams' = r.streams
  /\ pc' = "returned"
  /\ UNCHANGED <<chapter_sequence, reading_plan, plan_type, reading_date, assigned,
                 chapter_refs, compressed, other_vars>>

GeneratePlanReading ==
  /\ pc = "plan_reading"
  /\ Return(generate_plan_reading(reading_date, plan_type))

GenerateOldPsalmsNewPlanForDate ==
  /\ pc = "classic_for_date"
  /\ Return(generate_old_psalms_new_plan_for_date(reading_date))

GenerateDynamicReading ==
  /\ pc = "dynamic"
  /\ Return(generate_dynamic_reading(reading_date, reading_plan))

NextDate ==
  \/ GeneratePlanReading
  \/ GenerateOldPsalmsNewPlanForDate
  \/ GenerateDynamicReading

SpecDate == InitDate /\ [][NextDate]_vars

(***************************************************************************)
(* SpecStored: the stored plan.  __init__ hands the plan object it read    *)
(* from reading_plans.json, or the empty default plan when there is no     *)
(* file, to _ensure_plan_complete; classic readings are then asked of the  *)
(* plan that leaves behind.  The other plan types do not read the plan.    *)
(* The two methods that parse start_date themselves are also called on a   *)
(* plan object whose string does not parse, as json.loads hands it over.   *)
(***************************************************************************)
InitStored ==
  /\ InitReader
  /\ day_index = 0
  /\ chapter_refs = <<>>
  /\ \/ /\ pc = "ensure"
        /\ reading_plan \in {file.plan : file \in PlanFiles} \cup {EmptyDefaultPlan}
        /\ plan_type = "none"
        /\ reading_date = NoDate
     \/ /\ pc = "get_reading"
        /\ \/ /\ reading_plan \in UnrepairedPlans
              /\ plan_type = "classic"
           \/ /\ reading_plan = [start_date |-> DefaultStartDate]
              /\ plan_type \in PlanTypes
        /\ reading_date \in Dates
     \/ /\ pc = "dynamic"
        /\ reading_plan \in UnrepairedPlans
        /\ plan_type = "none"
        /\ reading_date \in Dates

\* _ensure_plan_complete on the plan object of _load_plan or of
\* _create_default_plan
EnsurePlanComplete ==
  /\ pc = "ensure"
  /\ reading_plan' = ensure_plan_complete(reading_plan)
  /\ pc' = "ensured"
  /\ UNCHANGED <<chapter_sequence, plan_type, reading_date, day_index, reading,
                 streams, assigned, chapter_refs, compressed, other_vars>>

\* the next start of the process: _load_plan reads the file the last run
\* wrote and hands it to _ensure_plan_complete again
EnsurePlanCompleteAgain ==
  /\ pc = "ensured"
  /\ reading_plan' = ensure_plan_complete(reading_plan)
  /\ pc' = "ensured_again"
  /\ UNCHANGED <<chapter_sequence, plan_type, reading_date, day_index, reading,
                 streams, assigned, chapter_refs, compressed, other_vars>>

\* what a call of get_reading_for_date leaves behind; pc tells how it ended
Answer(dt, p, result) ==
  /\ reading_date' = dt
  /\ plan_type' = p
  /\ day_index' = result.r.day_index
  /\ reading' = [passages |-> result.r.passages, theme |-> result.r.theme]
  /\ streams' = result.r.streams
  /\ pc' = result.outcome
  /\ UNCHANGED <<chapter_sequence, reading_plan, assigned, chapter_refs, compressed, other_vars>>

\* a classic reading asked of the plan __init__ left behind
GetClassicReadingForDate ==
  /\ pc = "ensured"
  /\ \E dt \in Dates :
       Answer(dt, "classic", get_reading_for_date(dt, "classic", reading_plan))

GetReadingForDate ==
  /\ pc = "get_reading"
  /\ Answer(reading_date, plan_type,
            get_reading_for_date(reading_date, plan_type, reading_plan))

NextStored ==
  \/ EnsurePlanComplete
  \/ EnsurePlanCompleteAgain
  \/ GetClassicReadingForDate
  \/ GetReadingForDate
  \/ GenerateDynamicReading

SpecStored == InitStored /\ [][NextStored]_vars

(***************************************************************************)
(* SpecCalls: one reader answers call after call.  __init__ completes the  *)
(* plan, then get_reading_for_date is called with any date and plan type,  *)
(* any number of times, also after a call that raised.  `returned` keeps   *)
(* what the first call with each (date, plan type) returned and whether    *)
(* that call has been repeated.                                            *)
(***************************************************************************)
CallDates ==
  {[year |-> 2024, month |-> 1, day |-> 5], [year |-> 2024, month |-> 2, day |-> 29]}

CallPlans == {"classic", "mcheyne", "augustine_classic"}

InitCalls ==
  /\ InitReader
  /\ day_index = 0
  /\ chapter_refs = <<>>
  /\ pc = "ensure"
  /\ reading_plan \in
       {[start_date |-> DefaultStartDate, total_days |-> 365, readings |-> CustomReadings],
        [start_date |-> <<"2", "0", "2", "3", "-", "0", "7", "-", "0", "4">>,
         total_days |-> 365, readings |-> NoReadings]}
  /\ plan_type = "none"
  /\ reading_date = NoDate

Call_aliasing(dt, p, result) ==
  /\ reading_date' = dt
  /\ plan_type' = p
  /\ day_index' = result.r.day_index
  /\ reading' = [passages |-> result.r.passages, theme |-> result.r.theme]
  /\ streams' = result.r.streams
  /\ pc' = result.outcome
  /\ returned' = IF <<dt, p>> \in DOMAIN returned
                   THEN [returned EXCEPT ![<<dt, p>>].again = TRUE]
                   ELSE returned @@ (<<dt, p>> :> [outcome  |-> result.outcome,
                                                   passages |-> result.r.passages,
                                                   theme    |-> result.r.theme,
                                                   again    |-> FALSE])
  /\ UNCHANGED <<singleton_vars, enhanced_vars, generation_vars>>
  /\ reading_plan' =
       IF /\ p = "augustine_classic"
          /\ strftime([year |-> plan_start_or_default(reading_plan.start_date).year,
                       month |-> dt.month, day |-> dt.day]) \in DOMAIN reading_plan.readings
         THEN [reading_plan EXCEPT
                 !.readings[strftime([year |-> plan_start_or_default(reading_plan.start_date).year,
                                      month |-> dt.month, day |-> dt.day])].theme =
                   <<"Augustine's Commentary on Chronological Reading">>]
         ELSE reading_plan
  /\ UNCHANGED <<chapter_sequence, assigned, chapter_refs, compressed>>

\* one call of get_reading_for_date on the live reader: it assigns no
\* attribute of self and hands back either a fresh dict or the stored entry
Call(dt, p, result) ==
  /\ reading_date' = dt
  /\ plan_type' = p
  /\ day_index' = result.r.day_index
  /\ reading' = [passages |-> result.r.passages, theme |-> result.r.theme]
  /\ streams' = result.r.streams
  /\ pc' = result.outcome
  /\ returned' = IF <<dt, p>> \in DOMAIN returned
                   THEN [returned EXCEPT ![<<dt, p>>].again = TRUE]
                   ELSE returned @@ (<<dt, p>> :> [outcome  |-> result.outcome,
                                                   passages |-> result.r.passages,
                                                   theme    |-> result.r.theme,
                                                   again    |-> FALSE])
  /\ UNCHANGED <<singleton_vars, enhanced_vars, generation_vars>>
  /\ UNCHANGED <<chapter_sequence, reading_plan, assigned, chapter_refs, compressed>>

GetReadingForDateAgain ==
  /\ pc \in {"ensured", "reading_stored", "reading_generated", "raised"}
  /\ \E dt \in CallDates, p \in CallPlans :
       Call(dt, p, get_reading_for_date(dt, p, reading_plan))

NextCalls ==
  \/ EnsurePlanComplete
  \/ GetReadingForDateAgain

SpecCalls == InitCalls /\ [][NextCalls]_vars

(***************************************************************************)
(* SpecSingleton: get_bible_reader of main.py called by request threads.   *)
(* The route handlers are plain `def` functions, which the server runs in  *)
(* a thread pool; the function takes no lock, so the threads interleave    *)
(* between the test of the global, the constructor call, the assignment    *)
(* and the read of the global for the return value.                        *)
(***************************************************************************)
NumRequests == 3

Requests == 1..NumRequests

InitSingleton ==
  /\ chapter_sequence = <<>>
  /\ reading_plan = [start_date |-> DefaultStartDate]
  /\ plan_type = "none"
  /\ reading_date = NoDate
  /\ day_index = 0
  /\ reading = NoReading
  /\ streams = <<>>
  /\ assigned = NothingAssigned
  /\ chapter_refs = <<>>
  /\ compressed = <<>>
  /\ pc = "serving"
  /\ CallsIdle
  /\ EnhancedIdle
  /\ GenerationIdle
  /\ bible_reader = 0
  /\ constructed = 0
  /\ requests = [t \in Requests |-> [pc |-> "test", made |-> 0, got |-> 0]]

\* `if _bible_reader is None:`
TestReader(t) ==
  /\ requests[t].pc = "test"
  /\ requests' = [requests EXCEPT ![t].pc = IF bible_reader = 0 THEN "construct"
                                                                ELSE "return"]
  /\ UNCHANGED <<reader_vars, call_vars, enhanced_vars, generation_vars, bible_reader, constructed>>

\* `BibleReader()`: the sequence is built, the plan file read and written
ConstructReader(t) ==
  /\ requests[t].pc = "construct"
  /\ constructed' = constructed + 1
  /\ requests' = [requests EXCEPT ![t].pc = "store", ![t].made = constructed + 1]
  /\ UNCHANGED <<reader_vars, call_vars, enhanced_vars, generation_vars, bible_reader>>

\* `_bible_reader = ...`
StoreReader(t) ==
  /\ requests[t].pc = "store"
  /\ bible_reader' = requests[t].made
  /\ requests' = [requests EXCEPT ![t].pc = "return"]
  /\ UNCHANGED <<reader_vars, call_vars, enhanced_vars, generation_vars, constructed>>

\* `return _bible_reader`
ReturnReader(t) ==
  /\ requests[t].pc = "return"
  /\ requests' = [requests EXCEPT ![t].pc = "done", ![t].got = bible_reader]
  /\ UNCHANGED <<reader_vars, call_vars, enhanced_vars, generation_vars, bible_reader, constructed>>

NextSingleton ==
  \E t \in Requests :
    \/ TestReader(t)
    \/ ConstructReader(t)
    \/ StoreReader(t)
    \/ ReturnReader(t)

SpecSingleton == InitSingleton /\ [][NextSingleton]_vars

(***************************************************************************)
(* SpecEnhanced: EnhancedBibleReader.create_enhanced_reading_plan, one     *)
(* step per iteration of its while loop.  date.max is 9999-12-31: adding a *)
(* day to it raises OverflowError.  A run with a negative passages_per_day *)
(* is started two days before date.max; started today it is the same loop, *)
(* some 2.9 million iterations longer.  The file the plan is saved to is   *)
(* written in a try/except and read by nothing here.                       *)
(***************************************************************************)
enhanced_books ==
  <<
    <<"Genesis", 50>>, <<"Job", 42>>, <<"Exodus", 40>>, <<"Leviticus", 27>>,
    <<"Numbers", 36>>, <<"Deuteronomy", 34>>, <<"Joshua", 24>>,
    <<"Judges", 21>>, <<"Ruth", 4>>, <<"1 Samuel", 31>>, <<"2 Samuel", 24>>,
    <<"1 Kings", 22>>, <<"2 Kings", 25>>, <<"1 Chronicles", 29>>,
    <<"2 Chronicles", 36>>, <<"Ezra", 10>>, <<"Nehemiah", 13>>,
    <<"Esther", 10>>, <<"Psalms", 150>>, <<"Proverbs", 31>>,
    <<"Ecclesiastes", 12>>, <<"Song of Solomon", 8>>, <<"Isaiah", 66>>,
    <<"Jeremiah", 52>>, <<"Lamentations", 5>>, <<"Ezekiel", 48>>,
    <<"Daniel", 12>>, <<"Hosea", 14>>, <<"Joel", 3>>, <<"Amos", 9>>,
    <<"Obadiah", 1>>, <<"Jonah", 4>>, <<"Micah", 7>>, <<"Nahum", 3>>,
    <<"Habakkuk", 3>>, <<"Zephaniah", 3>>, <<"Haggai", 2>>,
    <<"Zechariah", 14>>, <<"Malachi", 4>>, <<"Matthew", 28>>, <<"Mark", 16>>,
    <<"Luke", 24>>, <<"John", 21>>, <<"Acts", 28>>, <<"James", 5>>,
    <<"Galatians", 6>>, <<"1 Thessalonians", 5>>, <<"2 Thessalonians", 3>>,
    <<"1 Corinthians", 16>>, <<"2 Corinthians", 13>>, <<"Romans", 16>>,
    <<"Ephesians", 6>>, <<"Philippians", 4>>, <<"Colossians", 4>>,
    <<"Philemon", 1>>, <<"1 Timothy", 6>>, <<"Titus", 3>>,
    <<"2 Timothy", 4>>, <<"1 Peter", 5>>, <<"2 Peter", 3>>, <<"Jude", 1>>,
    <<"Hebrews", 13>>, <<"Revelation", 22>>, <<"1 John", 5>>,
    <<"2 John", 1>>, <<"3 John", 1>>
  >>

enhanced_sequence == ExpandBooks(enhanced_books, 1)

\* Python's // : the floor of the quotient, for either sign of the divisor
FloorDiv(a, b) == IF b > 0 THEN a \div b ELSE (0 - a) \div (0 - b)

\* date.isoformat(): YYYY-MM-DD
isoformat(dt) ==
  ZeroPad(IntToStr(dt.year), 4) \o <<"-">> \o ZeroPad(IntToStr(dt.month), 2)
    \o <<"-">> \o ZeroPad(IntToStr(dt.day), 2)

DateMax == [year |-> 9999, month |-> 12, day |-> 31]

EnhancedStartDates ==
  {[year |-> 2024, month |-> 2, day |-> 28], [year |-> 9999, month |-> 12, day |-> 30]}

PassagesPerDayArguments == {-1, 0, 1, 2, 29, 1189, 1190}

InitEnhanced ==
  /\ chapter_sequence = build_chapter_sequence
  /\ reading_plan = [start_date |-> DefaultStartDate]
  /\ plan_type = "none"
  /\ reading_date = NoDate
  /\ day_index = 0
  /\ reading = NoReading
  /\ streams = <<>>
  /\ assigned = NothingAssigned
  /\ chapter_refs = <<>>
  /\ compressed = <<>>
  /\ CallsIdle
  /\ SingletonIdle
  /\ GenerationIdle
  /\ enhanced_start_date \in EnhancedStartDates
  /\ passages_per_day \in PassagesPerDayArguments
  /\ passages_per_day < 0 => enhanced_start_date.year = DateMax.year
  /\ enhanced_plan = <<>>
  /\ current_date = NoDate
  /\ passage_index = 0
  /\ pc = "create_plan"

EnhancedFrame == UNCHANGED <<chapter_sequence, reading_plan, plan_type, reading_date,
                             day_index, reading, streams, assigned, chapter_refs,
                             compressed, call_vars, singleton_vars, generation_vars,
                             enhanced_start_date, passages_per_day>>

\* up to `plan = {...}`: total_chapters // passages_per_day raises for 0
CreatePlan ==
  /\ pc = "create_plan"
  /\ IF passages_per_day = 0
       THEN /\ pc' = "raised"
            /\ UNCHANGED <<enhanced_plan, current_date, passage_index>>
       ELSE /\ enhanced_plan' =
                 [start_date       |-> isoformat(enhanced_start_date),
                  passages_per_day |-> passages_per_day,
                  total_days       |-> FloorDiv(Len(enhanced_sequence), passages_per_day) + 1,
                  readings         |-> <<>>]
            /\ current_date' = enhanced_start_date
            /\ passage_index' = 0
            /\ pc' = "while"
  /\ EnhancedFrame

\* `for _ in range(passages_per_day)` with its break: how many chapters the
\* day takes; range() of a negative number is empty
taken(ppd, index, total) == IF ppd > 0 THEN Min(ppd, total - index) ELSE 0

\* one iteration of `while passage_index < total_chapters`
WhileBody ==
  /\ pc = "while"
  /\ passage_index < Len(enhanced_sequence)
  /\ passage_index' = passage_index
                        + taken(passages_per_day, passage_index, Len(enhanced_sequence))
  /\ enhanced_plan' =
       IF taken(passages_per_day, passage_index, Len(enhanced_sequence)) > 0
         THEN [enhanced_plan EXCEPT !.readings =
                 [key \in DOMAIN enhanced_plan.readings \cup {isoformat(current_date)} |->
                    IF key = isoformat(current_date)
                      THEN [passages |->
                              [i \in 1..taken(passages_per_day, passage_index,
                                              Len(enhanced_sequence)) |->
                                 BookChars[enhanced_sequence[passage_index + i][1]] \o <<" ">>
                                   \o IntToStr(enhanced_sequence[passage_index + i][2])],
                            date |-> key,
                            enhanced |-> TRUE]
                      ELSE enhanced_plan.readings[key]]]
         ELSE enhanced_plan
  /\ IF current_date = DateMax
       THEN pc' = "raised" /\ current_date' = current_date
       ELSE pc' = "while" /\ current_date' = AddDays(current_date, 1)
  /\ EnhancedFrame

\* the loop is left and the plan returned
ReturnPlan ==
  /\ pc = "while"
  /\ passage_index >= Len(enhanced_sequence)
  /\ pc' = "plan_returned"
  /\ UNCHANGED <<enhanced_plan, current_date, passage_index>>
  /\ EnhancedFrame

NextEnhanced ==
  \/ CreatePlan
  \/ WhileBody
  \/ ReturnPlan

SpecEnhanced == InitEnhanced /\ [][NextEnhanced]_vars

(***************************************************************************)
(* SpecGenerate: generate_all_commentaries over a short range of days, run *)
(* and then run again with resume=True.  A commentary text is left out: a  *)
(* dict of commentaries is the set of its passages.  In the first run a    *)
(* generation may succeed, fail (an exception, or a text too short) or be  *)
(* interrupted from the keyboard; in the run that resumes every generation *)
(* succeeds.  The file is there before the first run or not; when it is,   *)
(* it holds one commentary of the range under by_passage and no day.       *)
(***************************************************************************)
GenStartDay == 15

GenEndDay == 17

ExistingCommentaries ==
  {NoCommentaries,
   [by_passage |-> {BookChars["Job"] \o <<" ", "1", "-", "2">>}, by_day |-> <<>>]}

InitGenerate ==
  /\ chapter_sequence = build_chapter_sequence
  /\ reading_plan = [start_date |-> DefaultStartDate]
  /\ plan_type = "chronological"
  /\ reading_date = NoDate
  /\ day_index = GenStartDay - 1
  /\ reading = NoReading
  /\ streams = <<>>
  /\ assigned = NothingAssigned
  /\ chapter_refs = <<>>
  /\ compressed = <<>>
  /\ CallsIdle
  /\ SingletonIdle
  /\ EnhancedIdle
  /\ commentaries_file \in ExistingCommentaries
  /\ commentaries = commentaries_file
  /\ day_commentaries = {}
  /\ next_passage = 0
  /\ rerun = FALSE
  /\ pc = "for"

GenerateFrame == UNCHANGED <<chapter_sequence, reading_plan, plan_type, streams, assigned,
                             chapter_refs, compressed, call_vars, singleton_vars,
                             enhanced_vars>>

\* day_key = str(day_index)
day_key(d) == IntToStr(d)

\* commentaries["by_day"][day_key] = {"date": ..., "passages": passages,
\*                                    "commentaries": day_commentaries}
with_day(c, d, dt, passages, dc) ==
  [c EXCEPT !.by_day =
     [k \in DOMAIN c.by_day \cup {day_key(d)} |->
        IF k = day_key(d)
          THEN [date |-> isoformat(dt), passages |-> passages, commentaries |-> dc]
          ELSE c.by_day[k]]]

\* the by_day entry of the day holds the day_commentaries dict itself, so
\* what is added to the dict shows in the entry
aliased(c, d, dc) ==
  IF day_key(d) \in DOMAIN c.by_day THEN [c EXCEPT !.by_day[day_key(d)].commentaries = dc]
                                    ELSE c

\* `if day_key in commentaries.get("by_day", {}): continue`
SkipDay ==
  /\ pc = "for"
  /\ day_index < GenEndDay
  /\ day_key(day_index + 1) \in DOMAIN commentaries.by_day
  /\ day_index' = day_index + 1
  /\ UNCHANGED <<reading_date, reading, pc, generation_vars>>
  /\ GenerateFrame

\* the reading of the day is fetched and the loop over its passages entered
StartDay ==
  /\ pc = "for"
  /\ day_index < GenEndDay
  /\ day_key(day_index + 1) \notin DOMAIN commentaries.by_day
  /\ day_index' = day_index + 1
  /\ reading_date' = AddDays([year |-> 2024, month |-> 1, day |-> 1], day_index)
  /\ reading' =
       [passages |-> get_reading_for_date(reading_date', "chronological", reading_plan).r.passages,
        theme    |-> get_reading_for_date(reading_date', "chronological", reading_plan).r.theme]
  /\ day_commentaries' = {}
  /\ next_passage' = 0
  /\ pc' = IF reading'.passages = <<>> THEN "for" ELSE "passages"
  /\ UNCHANGED <<commentaries, commentaries_file, rerun>>
  /\ GenerateFrame

\* `if passage in commentaries.get("by_passage", {})`: taken over, not saved
PassageKnown ==
  /\ pc = "passages"
  /\ next_passage < Len(reading.passages)
  /\ reading.passages[next_passage + 1] \in commentaries.by_passage
  /\ day_commentaries' = day_commentaries \cup {reading.passages[next_passage + 1]}
  /\ commentaries' = aliased(commentaries, day_index, day_commentaries')
  /\ next_passage' = next_passage + 1
  /\ UNCHANGED <<reading_date, day_index, reading, pc, commentaries_file, rerun>>
  /\ GenerateFrame

\* a commentary of more than 50 characters: kept and the file written
PassageGenerated ==
  /\ pc = "passages"
  /\ next_passage < Len(reading.passages)
  /\ reading.passages[next_passage + 1] \notin commentaries.by_passage
  /\ day_commentaries' = day_commentaries \cup {reading.passages[next_passage + 1]}
  /\ commentaries' =
       with_day([commentaries EXCEPT !.by_passage = @ \cup {reading.passages[next_passage + 1]}],
                day_index, reading_date, reading.passages, day_commentaries')
  /\ commentaries_file' = commentaries'
  /\ next_passage' = next_passage + 1
  /\ UNCHANGED <<reading_date, day_index, reading, pc, rerun>>
  /\ GenerateFrame

\* an exception of the generation, or a text too short: counted, not kept
PassageFailed ==
  /\ pc = "passages"
  /\ ~rerun
  /\ next_passage < Len(reading.passages)
  /\ reading.passages[next_passage + 1] \notin commentaries.by_passage
  /\ next_passage' = next_passage + 1
  /\ UNCHANGED <<reading_date, day_index, reading, pc, commentaries, commentaries_file,
                 day_commentaries, rerun>>
  /\ GenerateFrame

\* KeyboardInterrupt inside the inner try: the day is saved as it is
PassageInterrupted ==
  /\ pc = "passages"
  /\ ~rerun
  /\ next_passage < Len(reading.passages)
  /\ reading.passages[next_passage + 1] \notin commentaries.by_passage
  /\ commentaries' = with_day(commentaries, day_index, reading_date, reading.passages,
                              day_commentaries)
  /\ commentaries_file' = commentaries'
  /\ pc' = "interrupted"
  /\ UNCHANGED <<reading_date, day_index, reading, day_commentaries, next_passage, rerun>>
  /\ GenerateFrame

\* the passages of the day are through
DayComplete ==
  /\ pc = "passages"
  /\ next_passage = Len(reading.passages)
  /\ pc' = "for"
  /\ UNCHANGED <<reading_date, day_index, reading, generation_vars>>
  /\ GenerateFrame

\* KeyboardInterrupt between two days: the outer handler writes the file
InterruptedBetweenDays ==
  /\ pc = "for"
  /\ ~rerun
  /\ commentaries_file' = commentaries
  /\ pc' = "interrupted"
  /\ UNCHANGED <<reading_date, day_index, reading, commentaries, day_commentaries,
                 next_passage, rerun>>
  /\ GenerateFrame

\* the range is through; nothing is written here
RangeComplete ==
  /\ pc = "for"
  /\ day_index = GenEndDay
  /\ pc' = "complete"
  /\ UNCHANGED <<reading_date, day_index, reading, generation_vars>>
  /\ GenerateFrame

\* the script is run again over the same range with resume=True
RunAgain ==
  /\ pc \in {"interrupted", "complete"}
  /\ ~rerun
  /\ rerun' = TRUE
  /\ commentaries' = commentaries_file
  /\ day_index' = GenStartDay - 1
  /\ reading_date' = NoDate
  /\ reading' = NoReading
  /\ day_commentaries' = {}
  /\ next_passage' = 0
  /\ pc' = "for"
  /\ UNCHANGED commentaries_file
  /\ GenerateFrame

NextGenerate ==
  \/ SkipDay
  \/ StartDay
  \/ PassageKnown
  \/ PassageGenerated
  \/ PassageFailed
  \/ PassageInterrupted
  \/ DayComplete
  \/ InterruptedBetweenDays
  \/ RangeComplete
  \/ RunAgain

SpecGenerate == InitGenerate /\ [][NextGenerate]_vars

(***************************************************************************)
(* Properties                                                              *)
(***************************************************************************)
IsPrefix(s, t) == Len(s) <= Len(t) /\ s = SubSeq(t, 1, Len(s))

Last(s) == s[Len(s)]

Walking(p) == pc = "year" /\ plan_type = p /\ day_index >= 1

\* C1: for planType chronological the slices of days 1..365, concatenated in
\* day order, are the full 1,189-unit chapter sequence, each chapter exactly
\* once and in order: day 1 starts at Genesis 1, day 365 ends at 3 John 1.
C1_ChronologicalCoverage ==
  Walking("chronological") =>
    /\ Len(chapter_sequence) = 1189
    /\ IsPrefix(assigned["main"], chapter_sequence)
    /\ assigned["main"] # <<>>
    /\ assigned["main"][1] = <<"Genesis", 1>>
    /\ reading.passages # <<>>
    /\ day_index = 1 => IsPrefix(<<"G", "e", "n", "e", "s", "i", "s", " ", "1">>,
                                 reading.passages[1])
    /\ day_index = 365 =>
         /\ assigned["main"] = chapter_sequence
         /\ Last(streams[1].chapters) = <<"3 John", 1>>
         /\ Last(reading.passages) = <<"3", " ", "J", "o", "h", "n", " ", "1">>

C1_Witness ==
  /\ Walking("chronological")
  /\ day_index = 365
  /\ Len(assigned["main"]) = 1189
  /\ Last(assigned["main"]) = <<"3 John", 1>>

\* C2: in every even-split stream outside M'Cheyne the end index of day k is
\* the start index of day k+1 for every k below the stream's totalDays, the
\* stream's first day starts at index 0 and its last day ends at the stream
\* length.
C2_EndsOfStream ==
  pc = "year" =>
    \A i \in 1..Len(streams) :
      streams[i].kind = "even" =>
        /\ streams[i].day \in 1..streams[i].total_days
        /\ streams[i].day = 1 => streams[i].start = 0
        /\ streams[i].day = streams[i].total_days => streams[i].end = streams[i].n

C2_Step ==
  \A i \in 1..Len(streams) : \A j \in 1..Len(streams') :
    ( /\ streams[i].kind = "even"
      /\ streams'[j].kind = "even"
      /\ streams'[j].name = streams[i].name
      /\ streams[i].day < streams[i].total_days )
    => ( /\ streams'[j].day = streams[i].day + 1
         /\ streams'[j].start = streams[i].end )

C2_Tiling == [](C2_EndsOfStream) /\ [][C2_Step]_vars

C2_Witness ==
  /\ Walking("old_new_split")
  /\ day_index = 365
  /\ Len(assigned["ot"]) = 929
  /\ Len(assigned["nt"]) = 260
  /\ streams[1].day = 182

\* adjacent repeats removed (by halves, to keep the recursion shallow)
RECURSIVE Squeeze(_)
Squeeze(s) ==
  IF Len(s) <= 1 THEN s
  ELSE
    LET m == Len(s) \div 2
        l == Squeeze(SubSeq(s, 1, m))
        r == Squeeze(SubSeq(s, m + 1, Len(s)))
    IN  IF Last(l) = r[1] THEN l \o Tail(r) ELSE l \o r

\* C3 as stated: in the M'Cheyne plan no chapter of the OT-history,
\* OT-prophets/poetry or NT stream is assigned to two different days and none
\* is skipped: each stream's day slices cover its sequence exactly once.
C3_McheyneExactlyOnce ==
  Walking("mcheyne") =>
    /\ IsPrefix(assigned["history"], mcheyne_history_seq)
    /\ IsPrefix(assigned["prophets"], mcheyne_prophets_poetry_seq)
    /\ IsPrefix(assigned["nt"], mcheyne_nt_seq)
    /\ day_index = 365 =>
         /\ assigned["history"] = mcheyne_history_seq
         /\ assigned["prophets"] = mcheyne_prophets_poetry_seq
         /\ assigned["nt"] = mcheyne_nt_seq

\* C3 amended: no chapter of the three streams is skipped and the OT-history
\* and OT-prophets/poetry slices cover their sequences exactly once; the
\* 260-chapter NT stream repeats a chapter on the next day whenever its even
\* split would be empty, so an NT chapter is assigned to one or two
\* consecutive days, never more.
C3_McheyneCoverage ==
  Walking("mcheyne") =>
    /\ IsPrefix(assigned["history"], mcheyne_history_seq)
    /\ IsPrefix(assigned["prophets"], mcheyne_prophets_poetry_seq)
    /\ IsPrefix(Squeeze(assigned["nt"]), mcheyne_nt_seq)
    /\ \A i \in 1..(Len(assigned["nt"]) - 2) :
         ~(assigned["nt"][i] = assigned["nt"][i + 1]
           /\ assigned["nt"][i + 1] = assigned["nt"][i + 2])
    /\ day_index = 365 =>
         /\ assigned["history"] = mcheyne_history_seq
         /\ assigned["prophets"] = mcheyne_prophets_poetry_seq
         /\ Squeeze(assigned["nt"]) = mcheyne_nt_seq

C3_Witness ==
  /\ Walking("mcheyne")
  /\ day_index = 365
  /\ Len(assigned["nt"]) > Len(mcheyne_nt_seq)
  /\ Squeeze(assigned["nt"]) = mcheyne_nt_seq
  /\ assigned["history"] = mcheyne_history_seq

\* C4: in the M'Cheyne plan every day 1..365 has at least one chapter from
\* each of the three even-split streams, and each stream's final chapter is
\* read on day 365.
C4_McheyneAtLeastOne ==
  Walking("mcheyne") =>
    /\ Len(streams) = 3
    /\ \A i \in 1..3 : Len(streams[i].chapters) >= 1
    /\ day_index = 365 =>
         /\ Last(streams[1].chapters) = Last(mcheyne_history_seq)
         /\ Last(streams[2].chapters) = Last(mcheyne_prophets_poetry_seq)
         /\ Last(streams[3].chapters) = Last(mcheyne_nt_seq)

C4_Witness ==
  /\ Walking("mcheyne")
  /\ day_index = 365
  /\ Last(streams[3].chapters) = <<"Revelation", 22>>
  /\ Last(streams[1].chapters) = <<"Esther", 10>>
  /\ Last(streams[2].chapters) = <<"Malachi", 4>>

EvenSplit(s) == s.kind = "even" \/ s.kind = "even_min1"

\* C5 as stated: for the even-split partitioner over a sequence of length n,
\* every dayIndex in 1..totalDays satisfies 1 <= startIndex <= endIndex <= n.
C5_IndexBoundsFromOne ==
  pc = "year" =>
    \A i \in 1..Len(streams) :
      EvenSplit(streams[i]) =>
        /\ 1 <= streams[i].start
        /\ streams[i].start <= streams[i].end
        /\ streams[i].end <= streams[i].n

\* C5 amended: for the even-split partitioner over a sequence of length n,
\* every dayIndex in 1..totalDays satisfies 0 <= startIndex <= endIndex <= n
\* (indices are 0-based offsets and the first day starts at 0).
C5_IndexBounds ==
  pc = "year" =>
    \A i \in 1..Len(streams) :
      EvenSplit(streams[i]) =>
        /\ 0 <= streams[i].start
        /\ streams[i].start <= streams[i].end
        /\ streams[i].end <= streams[i].n

C5_Witness ==
  /\ Walking("52_week_genre")
  /\ day_index = 1
  /\ streams[1].start = 0
  /\ streams[1].end = 3
  /\ streams[1].n = 1189

\* positions of chapter_refs where a unit does not continue the run before it
RunStarts(refs) ==
  {i \in 1..Len(refs) :
     i = 1 \/ refs[i][1] # refs[i - 1][1] \/ refs[i][2] # refs[i - 1][2] + 1}

RunEnd(refs, i) ==
  CHOOSE j \in i..Len(refs) :
    /\ \A k \in (i + 1)..j : k \notin RunStarts(refs)
    /\ j = Len(refs) \/ (j + 1) \in RunStarts(refs)

RunString(refs, i) ==
  LET j == RunEnd(refs, i)
  IN  BookChars[refs[i][1]] \o <<" ">> \o IntToStr(refs[i][2])
        \o (IF j = i THEN <<>> ELSE <<"-">> \o IntToStr(refs[j][2]))

\* C6: _compress_chapter_refs emits, in order, one string per maximal run of
\* units that share a book and whose chapters increase by exactly 1: "book s"
\* for a run of one chapter, "book s-e" otherwise; empty input gives empty
\* output and a run never spans two books.
C6_OneStringPerRun ==
  pc = "compressed" =>
    /\ Len(compressed) = Cardinality(RunStarts(chapter_refs))
    /\ chapter_refs = <<>> => compressed = <<>>
    /\ \A i \in RunStarts(chapter_refs) :
         /\ compressed[Cardinality({k \in RunStarts(chapter_refs) : k <= i})]
              = RunString(chapter_refs, i)
         /\ \A k \in i..RunEnd(chapter_refs, i) :
              chapter_refs[k][1] = chapter_refs[i][1]

C6_Witness ==
  /\ pc = "compressed"
  /\ chapter_refs = << <<"Genesis", 50>>, <<"Job", 1>>, <<"Job", 2>> >>
  /\ compressed = << <<"G", "e", "n", "e", "s", "i", "s", " ", "5", "0">>,
                     <<"J", "o", "b", " ", "1", "-", "2">> >>

\* the book whose name is the given string
BookNamed(cs) ==
  IF \E b \in DOMAIN BookChars : BookChars[b] = cs
    THEN CHOOSE b \in DOMAIN BookChars : BookChars[b] = cs
    ELSE "?"

\* a compressed reference expanded back into its (book, chapter) range
ExpandReference(ref) ==
  LET parsed == parse_reference(ref)
      book   == BookNamed(parsed[1])
      bounds == split_chapter(parsed[2], 1, <<>>)
      first  == StrToInt(bounds[1])
      last   == IF Len(bounds) >= 2 THEN StrToInt(bounds[2]) ELSE first
  IN  [k \in 1..(last - first + 1) |-> <<book, first + k - 1>>]

RECURSIVE ExpandAll(_, _)
ExpandAll(refs, i) ==
  IF i > Len(refs) THEN <<>>
  ELSE ExpandReference(refs[i]) \o ExpandAll(refs, i + 1)

\* C7: compression round-trip: expanding each string returned by
\* _compress_chapter_refs back into its (book, chapter) range and
\* concatenating the expansions in output order gives back the original list.
C7_RoundTrip ==
  pc = "compressed" => ExpandAll(compressed, 1) = chapter_refs

C7_Witness ==
  /\ pc = "compressed"
  /\ chapter_refs = << <<"1 Samuel", 9>>, <<"1 Samuel", 10>>, <<"1 Samuel", 11>> >>
  /\ compressed = << <<"1", " ", "S", "a", "m", "u", "e", "l", " ", "9", "-", "1", "1">> >>
  /\ ExpandAll(compressed, 1) = chapter_refs

DayOfYearMode == pc = "returned" /\ plan_type # "none"

LeapDec31(dt) == IsLeap(dt.year) /\ dt.month = 12 /\ dt.day = 31

\* C8: in day-of-year mode the day index handed to the partitioner is within
\* 1..365 for every calendar date: it is the date's day of year, except that
\* 31 December of a leap year (day 366) is clamped to 365.
C8_DayOfYearIndex ==
  DayOfYearMode =>
    /\ day_index \in 1..365
    /\ day_index = IF LeapDec31(reading_date) THEN 365 ELSE tm_yday(reading_date)
    /\ \A i \in 1..Len(streams) :
         streams[i].day \in 1..365 /\ streams[i].day <= day_index

C8_Witness ==
  /\ DayOfYearMode
  /\ plan_type = "mcheyne"
  /\ LeapDec31(reading_date)
  /\ tm_yday(reading_date) = 366
  /\ day_index = 365

\* C9 as stated: in day-of-year mode 31 December of a leap year returns the
\* same dayIndex, 365, as 30 December of a non-leap year.
C9_LeapDec31AsDec30 ==
  DayOfYearMode =>
    /\ LeapDec31(reading_date) => day_index = 365
    /\ (~IsLeap(reading_date.year) /\ reading_date.month = 12
          /\ reading_date.day = 30) => day_index = 365

\* C9 amended: in day-of-year mode 31 December of a leap year returns
\* dayIndex 365, the same as 31 December of a non-leap year and as 30
\* December of that leap year; 30 December of a non-leap year returns 364.
C9_LeapYearClamp ==
  (DayOfYearMode /\ reading_date.month = 12) =>
    /\ reading_date.day = 31 => day_index = 365
    /\ reading_date.day = 30 =>
         day_index = IF IsLeap(reading_date.year) THEN 365 ELSE 364

C9_Witness ==
  /\ DayOfYearMode
  /\ plan_type = "classic"
  /\ reading_date = [year |-> 2024, month |-> 12, day |-> 31]
  /\ day_index = 365

ElapsedDaysMode == pc = "returned" /\ plan_type = "none"

\* calendar months from b to a; dates 365 days apart are 11 to 13 months apart
MonthsApart(a, b) == 12 * (a.year - b.year) + (a.month - b.month)

\* the plan start _generate_dynamic_reading counts from
PlanStart ==
  IF fromisoformat(reading_plan.start_date).ok
    THEN fromisoformat(reading_plan.start_date).date
    ELSE [year |-> 2024, month |-> 1, day |-> 1]

\* C10: in elapsed-days mode the day index is
\* ((targetDate - planStart).days mod 365) + 1: it lies in 1..365 for target
\* dates before, on or after the plan start, the start date itself maps to 1,
\* and two target dates exactly 365 days apart map to the same index.
C10_ElapsedDaysIndex ==
  ElapsedDaysMode =>
    /\ day_index = (DaysBetween(reading_date, PlanStart) % 365) + 1
    /\ day_index \in 1..365
    /\ reading_date = PlanStart => day_index = 1
    /\ \A other \in Dates :
         ( /\ MonthsApart(other, reading_date) \in {11, 12, 13, 0 - 11, 0 - 12, 0 - 13}
           /\ DaysBetween(other, reading_date) \in {365, 0 - 365} )
         => dynamic_day_index(other, reading_plan) = day_index
    /\ \A i \in 1..Len(streams) : streams[i].day = day_index

C10_Witness ==
  /\ ElapsedDaysMode
  /\ reading_plan.start_date = <<"2", "0", "2", "4", "-", "0", "3", "-", "0", "1">>
  /\ reading_date = [year |-> 2023, month |-> 3, day |-> 2]
  /\ DaysBetween(reading_date, PlanStart) = 0 - 365
  /\ day_index = 1

(***************************************************************************)
(* Calls of get_reading_for_date (SpecStored)                              *)
(***************************************************************************)
Answered == pc \in {"reading_stored", "reading_generated", "raised"}

Malformed(plan) == ~fromisoformat(plan.start_date).ok

\* C11: get_reading_for_date never fails for a valid date: whatever date
\* is asked for, 29 February included, and whatever start_date the stored
\* plan holds, the call returns and does not raise.
C11_NeverFails == pc # "raised"

\* C12: a start_date string that does not parse is recovered where it is
\* read.  get_reading_for_date (classic) looks the date up under the year
\* 2024 and returns, the stored entry if it has three passages and the
\* generated classic reading otherwise; _generate_dynamic_reading counts the
\* days from 2024-01-01; _ensure_plan_complete writes "2024-01-01" back,
\* keeps the entries it was given and fills the 365 days from 2024-01-01.
C12_Recovered ==
  /\ (Answered /\ plan_type = "classic" /\ Malformed(reading_plan)) =>
       LET key == strftime([year |-> 2024, month |-> reading_date.month,
                            day |-> reading_date.day])
       IN  IF /\ key \in DOMAIN reading_plan.readings
              /\ Len(reading_plan.readings[key].passages) >= 3
             THEN /\ pc = "reading_stored"
                  /\ reading = reading_plan.readings[key]
             ELSE /\ pc = "reading_generated"
                  /\ reading.passages =
                       generate_old_psalms_new_plan(Min(tm_yday(reading_date), 365)).passages
  /\ (pc = "returned" /\ plan_type = "none" /\ Malformed(reading_plan)) =>
       day_index =
         ((ToOrdinal(reading_date)
             - ToOrdinal([year |-> 2024, month |-> 1, day |-> 1])) % 365) + 1

C12_EnsureStep ==
  (pc = "ensure" /\ Malformed(reading_plan)) =>
     /\ pc' = "ensured"
     /\ reading_plan'.start_date = DefaultStartDate
     /\ \A key \in DOMAIN reading_plan.readings :
          /\ key \in DOMAIN reading_plan'.readings
          /\ reading_plan'.readings[key] = reading_plan.readings[key]
     /\ \A k \in 0..364 :
          strftime(AddDays([year |-> 2024, month |-> 1, day |-> 1], k))
            \in DOMAIN reading_plan'.readings

C12_MalformedStartDate == [](C12_Recovered) /\ [][C12_EnsureStep]_vars

\* 29 February asked of a plan whose start_date is free text: the year
\* 2024 stands in and the classic reading of day 60 comes back
C12_Witness ==
  /\ pc = "reading_generated"
  /\ plan_type = "classic"
  /\ Malformed(reading_plan)
  /\ reading_date.month = 2 /\ reading_date.day = 29
  /\ day_index = 60
  /\ Len(reading.passages) >= 2

\* C15: for planType classic the stored plan is never the source of truth:
\* the passages returned for a date are those the scheduler computes for
\* the date's day-of-year index, whatever entries the stored plan holds.
C15_SchedulerIsSource ==
  (plan_type = "classic" /\ pc \in {"reading_stored", "reading_generated"}) =>
     reading.passages =
       generate_old_psalms_new_plan(Min(tm_yday(reading_date), 365)).passages

\* C16: for every plan type and every date get_reading_for_date returns a
\* reading, and the reading has at least one passage.
C16_NonEmptyReading ==
  Answered => (pc # "raised" /\ reading # NoReading /\ Len(reading.passages) >= 1)

UnknownPlanTypes == {"fivexfive_nt", "genre_52week"}

\* C20: a planType the dispatch does not know does not raise:
\* get_reading_for_date answers with the plain split of the full chapter
\* sequence (base = total div 365 chapters a day, the first total mod 365
\* days one more) at the date's day-of-year index, compressed, under the
\* theme "Daily Bread".
C20_UnknownPlanFallback ==
  (Answered /\ plan_type \in UnknownPlanTypes) =>
     LET d     == Min(tm_yday(reading_date), 365)
         total == Len(chapter_sequence)
         base  == total \div 365
         extra == total % 365
         first == (d - 1) * base + Min(d - 1, extra) + 1
         last  == d * base + Min(d, extra)
     IN  /\ pc = "reading_generated"
         /\ day_index = d
         /\ Len(streams) = 1
         /\ streams[1].chapters = SubSeq(chapter_sequence, first, last)
         /\ last >= first
         /\ reading.passages = compress_chapter_refs(SubSeq(chapter_sequence, first, last))
         /\ reading.theme = <<"Daily Bread">>

\* 31 December of a leap year asked of a plan name nobody knows
C20_Witness ==
  /\ pc = "reading_generated"
  /\ plan_type = "genre_52week"
  /\ LeapDec31(reading_date)
  /\ day_index = 365
  /\ reading.theme = <<"Daily Bread">>
  /\ Last(reading.passages) = BookChars["3 John"] \o <<" ", "1">>

(***************************************************************************)
(* Further properties of the year walk (SpecYear)                          *)
(***************************************************************************)
\* C13: the Psalms+Proverbs stream of the classic plan gives every day
\* exactly two consecutive units of the 181-unit cycle, starting at
\* ((dayIndex - 1) * 2) mod 181 and wrapping from unit 180 to unit 0.
C13_TwoUnitsWrapping ==
  Walking("old_psalms_new") =>
     LET cycle == classic_ps_prov_seq
         idx   == ((day_index - 1) * 2) % 181
     IN  /\ Len(cycle) = 181
         /\ streams[2].name = "ps_prov"
         /\ streams[2].chapters = <<cycle[idx + 1], cycle[((idx + 1) % 181) + 1]>>

\* C14: every day of the classic plan has at least one Old Testament
\* passage, then at least one Psalms/Proverbs passage, then at least one New
\* Testament passage.
C14_ThreeStreamsEveryDay ==
  Walking("old_psalms_new") =>
     LET ot == compress_chapter_refs(streams[1].chapters)
         ps == compress_chapter_refs(streams[2].chapters)
         nt == compress_chapter_refs(streams[3].chapters)
     IN  /\ reading.passages = ot \o ps \o nt
         /\ Len(ot) >= 1
         /\ Len(ps) >= 1
         /\ Len(nt) >= 1

\* "Book N" for one chapter unit
OneChapter(unit) == BookChars[unit[1]] \o <<" ">> \o IntToStr(unit[2])

\* C17: the 5x5x5 plan reads chapter ((d - 1) mod 260) + 1 of the
\* 260-chapter New Testament on day d: days 1..260 go through it once, in
\* order, and day 261..365 returns the passages of day d - 260.
C17_FivexfiveCycle ==
  Walking("fivexfive_new_testament") =>
     LET d  == day_index
         nt == fivexfive_nt_seq
         c  == ((d - 1) % 260) + 1
     IN  /\ Len(nt) = 260
         /\ streams[1].chapters = <<nt[c]>>
         /\ reading.passages = <<OneChapter(nt[c])>>
         /\ d <= 260 => assigned["nt"] = SubSeq(nt, 1, d)
         /\ d > 260 =>
              /\ assigned["nt"] = nt \o SubSeq(nt, 1, d - 260)
              /\ reading.passages =
                   generate_fivexfive_new_testament_plan(d - 260).passages

\* day 261 is back at Matthew 1, the whole New Testament behind it
C17_Witness ==
  /\ Walking("fivexfive_new_testament")
  /\ day_index = 261
  /\ reading.passages = <<BookChars["Matthew"] \o <<" ", "1">> >>
  /\ Len(assigned["nt"]) = 261

\* C18: the cross-reference plan returns, on days 1..150, the chronological
\* passages of the day followed by "Psalm ((d - 1) mod 150) + 1" unless the
\* day's chapters already hold a Psalm; on days 151..365 it returns the
\* chronological passages.
C18_CrossRefPsalm ==
  Walking("chronological_cross_ref") =>
     LET d        == day_index
         chron    == generate_chronological_plan(d).passages
         today    == streams[1].chapters
         hasPsalm == \E i \in 1..Len(today) : today[i][1] \in {"Psalms", "Psalm"}
         psalm    == <<"P", "s", "a", "l", "m", " ">> \o IntToStr(((d - 1) % 150) + 1)
     IN  /\ (d <= 150 /\ ~hasPsalm) => reading.passages = Append(chron, psalm)
         /\ (d <= 150 /\ hasPsalm) => reading.passages = chron
         /\ d > 150 => reading.passages = chron

\* a day before 151 whose chronological chapters are Psalms: nothing added
C18_Witness ==
  /\ Walking("chronological_cross_ref")
  /\ day_index <= 150
  /\ \E i \in 1..Len(streams[1].chapters) : streams[1].chapters[i][1] = "Psalms"
  /\ reading.passages = compress_chapter_refs(streams[1].chapters)

GenreNames == <<"Law", "History", "Poetry", "Prophets", "Gospels", "Epistles">>

GenreRank(g) == CHOOSE i \in 1..6 : GenreNames[i] = g

GenreBooks(g) ==
  LET books == CASE g = "Law" -> genre_Law [] g = "History" -> genre_History
                 [] g = "Poetry" -> genre_Poetry [] g = "Prophets" -> genre_Prophets
                 [] g = "Gospels" -> genre_Gospels [] g = "Epistles" -> genre_Epistles
  IN  {books[k][1] : k \in 1..Len(books)}

BookRank(book) == CHOOSE i \in 1..6 : book \in GenreBooks(GenreNames[i])

\* C19: the genre plan reads Law, History, Poetry, Prophets, Gospels,
\* Epistles in that order; the theme names the group of the book of the
\* day's first chapter, never the placeholder.
C19_ThemeOfFirstChapter ==
  Walking("52_week_genre") =>
     LET today == streams[1].chapters
         all   == assigned["main"]
     IN  /\ today # <<>>
         /\ \E i \in 1..6 :
              /\ reading.theme = <<"52 Week Plan - ", GenreNames[i]>>
              /\ today[1][1] \in GenreBooks(GenreNames[i])
         /\ \A k \in 1..(Len(today) - 1) :
              BookRank(today[k][1]) <= BookRank(today[k + 1][1])
         /\ day_index = 365 =>
              /\ all = genre_full_sequence
              /\ \A k \in 1..(Len(all) - 1) :
                   BookRank(all[k][1]) <= BookRank(all[k + 1][1])
              /\ all[1][1] \in GenreBooks("Law")
              /\ Last(all)[1] \in GenreBooks("Epistles")

\* the genre of the theme never moves backwards from one day to the next
C19_Step ==
  (Walking("52_week_genre") /\ Walking("52_week_genre")') =>
     GenreRank(reading.theme[2]) <= GenreRank(reading'.theme[2])

C19_GenreTheme == [](C19_ThemeOfFirstChapter) /\ [][C19_Step]_vars

\* a day that starts in one group and ends in the next
C19_Witness ==
  /\ Walking("52_week_genre")
  /\ streams[1].chapters # <<>>
  /\ BookRank(streams[1].chapters[1][1]) < BookRank(Last(streams[1].chapters)[1])
  /\ reading.theme[2] = GenreNames[BookRank(streams[1].chapters[1][1])]

(***************************************************************************)
(* Dispatch, purity                                                        *)
(***************************************************************************)
Fallback == reading.theme = <<"Daily Bread">>

\* C21 (as stated): each of classic, chronological, chronological_cross_ref,
\* old_psalms_new, old_new_split, mcheyne, fivexfive_nt and genre_52week
\* selects its own partitioning algorithm; none of them is answered by the
\* fallback for unrecognized plan types.
C21_SpecNamesDispatched ==
  (Answered /\ plan_type \in {"classic", "chronological", "chronological_cross_ref",
                              "old_psalms_new", "old_new_split", "mcheyne",
                              "fivexfive_nt", "genre_52week"}) => ~Fallback

\* the reading the plan's own generator gives for day d
OwnReading(p, d) ==
  CASE p = "chronological" -> generate_chronological_plan(d)
    [] p = "chronological_cross_ref" -> generate_chronological_cross_ref_plan(d)
    [] p = "old_psalms_new" -> generate_old_psalms_new_plan(d)
    [] p = "old_new_split" -> generate_old_new_split_plan(d)
    [] p = "mcheyne" -> generate_mcheyne_plan(d)
    [] p = "fivexfive_new_testament" -> generate_fivexfive_new_testament_plan(d)
    [] p = "52_week_genre" -> generate_52_week_genre_plan(d)

\* C21 (amended): with the names fivexfive_new_testament and 52_week_genre
\* in place of fivexfive_nt and genre_52week, each of the eight plan types
\* selects its own algorithm and none is answered by the fallback: the seven
\* generated plans return their generator's reading for the day-of-year
\* index; classic takes its own path (it raises, returns the stored entry,
\* or generates with the old_psalms_new algorithm).
C21_CodeNamesDispatched ==
  /\ (Answered /\ plan_type \in {"chronological", "chronological_cross_ref",
                                 "old_psalms_new", "old_new_split", "mcheyne",
                                 "fivexfive_new_testament", "52_week_genre"}) =>
       /\ pc = "reading_generated"
       /\ ~Fallback
       /\ reading.passages =
            OwnReading(plan_type, Min(tm_yday(reading_date), 365)).passages
       /\ reading.theme =
            OwnReading(plan_type, Min(tm_yday(reading_date), 365)).theme
  /\ (Answered /\ plan_type = "classic") =>
       /\ ~Fallback
       /\ pc = "reading_generated" =>
            reading.passages =
              generate_old_psalms_new_plan(Min(tm_yday(reading_date), 365)).passages

\* the genre plan asked under the name the code knows, late in the year
C21_Witness ==
  /\ pc = "reading_generated"
  /\ plan_type = "52_week_genre"
  /\ reading.theme = <<"52 Week Plan - ", "Epistles">>
  /\ day_index = 365

\* C22: on a live reader, every call with a (date, plan type) that was
\* called before ends as the first such call ended, with the same passages and
\* the same theme, whatever calls came in between; and no call changes the
\* chapter sequence or the loaded reading plan.
C22_SameAsFirst ==
  Answered =>
    /\ <<reading_date, plan_type>> \in DOMAIN returned
    /\ returned[<<reading_date, plan_type>>].outcome = pc
    /\ returned[<<reading_date, plan_type>>].passages = reading.passages
    /\ returned[<<reading_date, plan_type>>].theme = reading.theme

C23_OneReader ==
  /\ constructed <= 1
  /\ \A t \in Requests, u \in Requests :
       requests[t].pc = "done" /\ requests[u].pc = "done" => requests[t].got = requests[u].got

\* the book tables a plan type builds its streams from, in the order of the
\* code; the classic plan's middle stream is built by two loops, not a table
psalms_and_proverbs == <<<<"Psalms", 150>>, <<"Proverbs", 31>>>>

PlanBookTables(p) ==
  CASE p = "old_psalms_new" -> <<classic_ot_books, psalms_and_proverbs, classic_nt_books>>
    [] p = "old_new_split" -> <<split_ot_books, split_nt_books>>
    [] p = "mcheyne" -> <<mcheyne_ot_history, mcheyne_ot_prophets_poetry, mcheyne_nt_books>>
    [] p = "52_week_genre" -> [i \in 1..Len(genre_order) |-> all_books_by_genre[genre_order[i]]]
    [] p = "fivexfive_new_testament" -> <<fivexfive_nt_books>>
    [] OTHER -> <<chronological_books_simplified>>

RECURSIVE Flatten(_, _)
Flatten(tables, i) ==
  IF i > Len(tables) THEN <<>> ELSE tables[i] \o Flatten(tables, i + 1)

CanonTable == {chronological_books_simplified[i] : i \in DOMAIN chronological_books_simplified}

TablesAgreeWithCanon(entries, whole_bible) ==
  /\ \A i \in DOMAIN entries : entries[i] \in CanonTable
  /\ \A i \in DOMAIN entries, j \in DOMAIN entries : i # j => entries[i][1] # entries[j][1]
  /\ whole_bible =>
       /\ {entries[i] : i \in DOMAIN entries} = CanonTable
       /\ Len(entries) = 66
       /\ Len(ExpandBooks(entries, 1)) = 1189

C25_FairRemainder ==
  Walking("stored") =>
    /\ Len(streams) = 1
    /\ streams[1].kind = "int_split"
    /\ streams[1].day = day_index
    /\ streams[1].n = Len(chapter_sequence)
    /\ Len(streams[1].chapters) =
         (streams[1].n \div 365) + (IF day_index <= streams[1].n % 365 THEN 1 ELSE 0)
    /\ Len(streams[1].chapters) \in {streams[1].n \div 365, (streams[1].n \div 365) + 1}
    /\ streams[1].chapters = Slice(chapter_sequence, streams[1].start, streams[1].end)
    /\ streams[1].start + Len(streams[1].chapters) = streams[1].end
    /\ day_index = 1 => streams[1].start = 0
    /\ Len(assigned["main"]) = streams[1].end
    /\ IsPrefix(assigned["main"], chapter_sequence)
    /\ day_index = 365 => assigned["main"] = chapter_sequence

\* day 95 is the first day after the 94 longer ones: three chapters, from
\* offset 94 * 4
C25_Witness ==
  /\ Walking("stored")
  /\ day_index = 95
  /\ streams[1].start = 376
  /\ Len(streams[1].chapters) = 3
  /\ Len(chapter_sequence) % 365 = 94

\* C26 (as stated): for every day index 1..365 the stored-plan split
\* (_passages_for_day_index) returns the same passages as planType
\* chronological (_generate_chronological_plan).
C26_PartitionersAgree ==
  Walking("stored") => reading.passages = generate_chronological_plan(day_index).passages

Ahead(mine, theirs, d) ==
  /\ mine.n = theirs.n
  /\ mine.chapters = Slice(chapter_sequence, mine.start, mine.end)
  /\ theirs.chapters = Slice(chapter_sequence, theirs.start, theirs.end)
  /\ IF d = 1 THEN mine.start = theirs.start /\ mine.start = 0
              ELSE mine.start > theirs.start
  /\ IF d = 365 THEN mine.end = theirs.end /\ mine.end = mine.n
                ELSE mine.end > theirs.end

\* C26 (amended): the two chronological partitioners slice the same chapter
\* sequence but do not agree: the stored-plan split gives its remainder to the
\* first days and is ahead of planType chronological all year, starting at the
\* same offset only on day 1 and ending at the same offset only on day 365, so
\* on every day index 1..365 the two return different passages.
C26_StoredSplitAhead ==
  Walking("stored") =>
    /\ Ahead(streams[1], generate_chronological_plan(day_index).streams[1], day_index)
    /\ reading.passages # generate_chronological_plan(day_index).passages

\* day 365: the stored-plan split reads the last three chapters, planType
\* chronological the last four
C26_Witness ==
  /\ Walking("stored")
  /\ day_index = 365
  /\ streams[1].start = 1186
  /\ generate_chronological_plan(day_index).streams[1].start = 1185
  /\ streams[1].end = 1189

Ensured == pc \in {"ensured", "ensured_again"}

\* C27: after _ensure_plan_complete returns, for any input plan, total_days
\* is 365 and readings holds an entry for each of the 365 consecutive dates
\* starting at the plan's start date; entries that were already present are
\* left unchanged, and applying it a second time changes nothing.
C27_Completed ==
  Ensured =>
    /\ reading_plan.total_days = 365
    /\ fromisoformat(reading_plan.start_date).ok
    /\ \A day_offset \in 1..365 :
         strftime(AddDays(fromisoformat(reading_plan.start_date).date, day_offset - 1))
           \in DOMAIN reading_plan.readings

C27_EnsureStep ==
  (pc \in {"ensure", "ensured"} /\ pc' \in {"ensured", "ensured_again"}) =>
    /\ \A key \in DOMAIN reading_plan.readings :
         key \in DOMAIN reading_plan'.readings
           /\ reading_plan'.readings[key] = reading_plan.readings[key]
    /\ pc = "ensured" => reading_plan' = reading_plan

C27_EnsurePlanComplete == [](C27_Completed) /\ [][C27_EnsureStep]_vars

\* the entry of day k (k = 1 for the start date) of a plan of ppd per day
DayKey(k) == isoformat(AddDays(enhanced_start_date, k - 1))

\* C28: in the plan returned by create_enhanced_reading_plan, for every
\* passages_per_day >= 1, total_days equals the number of dated entries in
\* readings, which are consecutive dates from start_date holding the 1,189
\* chapters in sequence order, passages_per_day per day except possibly the
\* last.
C28_EnhancedPlanShape ==
  (pc = "plan_returned" /\ passages_per_day >= 1) =>
    /\ enhanced_plan.total_days = Cardinality(DOMAIN enhanced_plan.readings)
    /\ DOMAIN enhanced_plan.readings =
         {DayKey(k) : k \in 1..Cardinality(DOMAIN enhanced_plan.readings)}
    /\ \A k \in 1..Cardinality(DOMAIN enhanced_plan.readings) :
         /\ Len(enhanced_plan.readings[DayKey(k)].passages) =
              IF k < Cardinality(DOMAIN enhanced_plan.readings)
                THEN passages_per_day
                ELSE Len(enhanced_sequence) - (k - 1) * passages_per_day
         /\ \A i \in DOMAIN enhanced_plan.readings[DayKey(k)].passages :
              enhanced_plan.readings[DayKey(k)].passages[i] =
                BookChars[enhanced_sequence[(k - 1) * passages_per_day + i][1]] \o <<" ">>
                  \o IntToStr(enhanced_sequence[(k - 1) * passages_per_day + i][2])
    /\ Len(enhanced_sequence) = 1189

\* C29: create_enhanced_reading_plan terminates with a plan for every integer
\* passages_per_day argument, including zero and negative values: no call with
\* a zero or negative argument, and no call started before the last year of
\* the calendar, ends in an exception.
C29_TerminatesWithPlan ==
  (passages_per_day <= 0 \/ enhanced_start_date.year < DateMax.year) => pc # "raised"

\* the passages generate_all_commentaries works on for day d
PassagesOfDay(d) ==
  get_reading_for_date(AddDays([year |-> 2024, month |-> 1, day |-> 1], d - 1),
                       "chronological", reading_plan).r.passages

\* C30: when generate_all_commentaries was interrupted or hit a failure
\* part-way and is run again with resume=True over the same range, every
\* passage of every day in the range ends up with a commentary in by_passage
\* and in that day's by_day entry.
C30_AllCommented ==
  (rerun /\ pc = "complete") =>
    \A d \in GenStartDay..GenEndDay :
      /\ day_key(d) \in DOMAIN commentaries_file.by_day
      /\ \A i \in DOMAIN PassagesOfDay(d) :
           /\ PassagesOfDay(d)[i] \in commentaries_file.by_passage
           /\ PassagesOfDay(d)[i] \in commentaries_file.by_day[day_key(d)].commentaries

\* C30: a day is skipped on resume only when all of its passages already
\* have commentaries.
C30_SkipStep ==
  (rerun /\ pc = "for" /\ pc' = "for" /\ day_index' = day_index + 1 /\ reading' = reading) =>
    \A i \in DOMAIN PassagesOfDay(day_index') :
      PassagesOfDay(day_index')[i] \in commentaries.by_passage

C30_Resumable == [](C30_AllCommented) /\ [][C30_SkipStep]_vars

====
